---- MODULE Spec2Model ----
(***************************************************************************)
(* A model of the voice-agent backend:                                     *)
(*   - the CRM webhook endpoint, the lead intake handler and the delayed   *)
(*     SMS fallback check (src/src/webhooks/ghl.py), specification Spec;   *)
(*   - the calendar availability engine                                    *)
(*     (src/src/integrations/ghl/client.py and                             *)
(*     src/src/functions/check_calendar_availability.py), AvailSpec;       *)
(*   - the contact function with its recovery from duplicate errors        *)
(*     (src/src/functions/create_contact.py), specification CreateSpec;    *)
(*   - the signature check of the webhook endpoint, SignedSpec;            *)
(*   - the booking function (src/src/functions/book_appointment.py),       *)
(*     specification BookSpec;                                             *)
(*   - the call classifier (src/src/functions/classify_call_type.py),      *)
(*     specification ClassifySpec.                                         *)
(* Strings the code takes apart (phone numbers, email addresses, ZIP       *)
(* codes) are sequences of one-character strings; a Python None is the     *)
(* value None; dates are day numbers and times of day are minutes after    *)
(* midnight.                                                               *)
(***************************************************************************)
EXTENDS Integers, Sequences, FiniteSets, TLC

VARIABLES
    inbox,      \* the webhook request whose body has been read, or NoRequest
    dl,         \* the webhook requests dispatched so far, in dispatch order
    crm,        \* the CRM's record of contact C1
    calls,      \* the calls the voice-AI platform has created
    tasks,      \* the fallback checks scheduled with asyncio.create_task
    sms,        \* the messages the SMS gateway has accepted
    edits,      \* number of edits of the contact made by other CRM users
    log,        \* the last line logged by a handler or a fallback check
    clock,      \* the current date and time in America/Los_Angeles
    calendar,   \* the calendars of the CRM location and their appointments
    aq,         \* the availability query in progress
    avail,      \* the result of get_calendar_availability
    response,   \* the response of check_calendar_availability
    cc,         \* the create_contact call in progress, and its outcome
    wire,       \* the requests create_contact has made of the CRM, in order
    settings,   \* the settings the service was started with
    ba,         \* the book_appointment call in progress, and its outcome
    ct          \* the classify_call_type call and its response

webVars == <<inbox, dl, crm, calls, tasks, sms, edits, log>>
availVars == <<clock, calendar, aq, avail, response>>
createVars == <<cc, wire>>
configVars == <<settings>>
bookVars == <<ba>>
classifyVars == <<ct>>
vars == <<inbox, dl, crm, calls, tasks, sms, edits, log, clock, calendar, aq, avail, response,
          cc, wire, settings, ba, ct>>

----------------------------------------------------------------------------
(* Bounds of the model *)

MaxDeliveries == 2
MaxEdits == 1

----------------------------------------------------------------------------
(* Python values *)

None == "None"

Truthy(v) == v # None /\ v # ""

Or(a, b) == IF Truthy(a) THEN a ELSE b

\* str(v).lower() on the values the model draws
Lower(v) ==
    CASE v = "True" -> "true"
      [] v = "TRUE" -> "true"
      [] v = "FAILED" -> "failed"
      [] v = "No-Answer" -> "no-answer"
      [] v = "None" -> "none"
      [] v = "General" -> "general"
      [] v = "Repair & Service" -> "repair & service"
      [] v = "Sales Estimates" -> "sales estimates"
      [] v = "Install Team" -> "install team"
      [] v = "Service Calls" -> "service calls"
      [] OTHER -> v

Get(dict, k) == IF k \in DOMAIN dict THEN dict[k] ELSE None

Digits == {"0", "1", "2", "3", "4", "5", "6", "7", "8", "9"}

IsDigit(c) == c \in Digits

\* the validation that formats whatever digits it is given
validate_phone_number_NeverRaises(phone) ==
    LET digits == SelectSeq(phone, IsDigit) IN
    IF Len(digits) = 10 THEN [ok |-> TRUE, value |-> <<"+", "1">> \o digits]
    ELSE [ok |-> TRUE, value |-> <<"+">> \o digits]

\* validate_phone_number: [ok |-> FALSE] stands for the raised APIError
validate_phone_number(phone) ==
    LET digits == SelectSeq(phone, IsDigit) IN
    IF Len(digits) = 10 THEN [ok |-> TRUE, value |-> <<"+", "1">> \o digits]
    ELSE IF Len(digits) = 11 /\ digits[1] = "1"
        THEN [ok |-> TRUE, value |-> <<"+">> \o digits]
    ELSE IF Len(digits) > 11 THEN [ok |-> TRUE, value |-> <<"+">> \o digits]
    ELSE [ok |-> FALSE, value |-> <<>>]

normalize_ghl_field_key(key) ==
    CASE key = "vapi_called" -> "contact.vapi_called"
      [] key = "vapi_call_id" -> "contact.vapi_call_id"
      [] key = "lead_source" -> "contact.lead_source"
      [] key = "sms_fallback_sent" -> "contact.sms_fallback_sent"
      [] key = "sms_fallback_date" -> "contact.sms_fallback_date"
      [] key = "sms_fallback_reason" -> "contact.sms_fallback_reason"
      [] key = "sms_consent" -> "contact.sms_consent"
      [] OTHER -> key

\* fields: a sequence of <<key, value>> in the dict's insertion order
build_custom_fields_array(fields) ==
    [i \in DOMAIN fields |->
        [key |-> normalize_ghl_field_key(fields[i][1]),
         field_value |-> IF fields[i][2] = None THEN "" ELSE fields[i][2]]]

----------------------------------------------------------------------------
(* The CRM's contact record, as GET contacts/{id} returns it *)

PhoneE164 == <<"+", "1", "5", "0", "3", "5", "5", "5", "0", "1", "0", "1">>
PhonePretty == <<"(", "5", "0", "3", ")", " ", "5", "5", "5", "-", "0", "1", "0", "1">>
PhoneShort == <<"5", "5", "5", "-", "0", "1", "0", "1">>
PhoneBad11 == <<"2", "5", "0", "3", "5", "5", "5", "0", "1", "0", "1">>

NoList == [isList |-> FALSE, items |-> <<>>]
ListOf(items) == [isList |-> TRUE, items |-> items]

\* phone, phoneNumber and phoneNumbers of the contact record
ContactShapes ==
    { [phone |-> PhoneE164, phoneNumber |-> <<>>, phoneNumbers |-> NoList],
      [phone |-> PhonePretty, phoneNumber |-> <<>>,
       phoneNumbers |-> ListOf(<<[number |-> PhoneE164]>>)],
      [phone |-> <<>>, phoneNumber |-> <<>>, phoneNumbers |-> ListOf(<<>>)],
      [phone |-> PhoneShort, phoneNumber |-> <<>>,
       phoneNumbers |-> ListOf(<<[number |-> PhoneShort]>>)],
      [phone |-> <<>>, phoneNumber |-> PhoneBad11, phoneNumbers |-> ListOf(<<>>)],
      [phone |-> <<>>, phoneNumber |-> <<>>, phoneNumbers |-> NoList] }

\* the custom fields of a contact nobody has called yet
InitialCustomFields ==
    { <<>>,
      <<[key |-> "contact.sms_consent", value |-> "true"]>>,
      <<[key |-> "sms_consent", value |-> "True"]>>,
      <<[key |-> "contact.sms_consent", value |-> "no"]>> }

RECURSIVE IndexOfKey(_, _, _)
IndexOfKey(raw, key, i) ==
    IF i > Len(raw) THEN 0
    ELSE IF raw[i].key = key THEN i
    ELSE IndexOfKey(raw, key, i + 1)

\* a CRM that keeps the value a field already has
RECURSIVE MergeCustomFields_KeepsExisting(_, _)
MergeCustomFields_KeepsExisting(raw, upd) ==
    IF upd = <<>> THEN raw
    ELSE LET u == Head(upd)
             e == [key |-> u.key, value |-> u.field_value]
         IN MergeCustomFields_KeepsExisting(
                IF IndexOfKey(raw, u.key, 1) = 0 THEN Append(raw, e) ELSE raw,
                Tail(upd))

\* a CRM that replaces the custom fields by those of the update
MergeCustomFields_Replaces(raw, upd) ==
    [i \in DOMAIN upd |-> [key |-> upd[i].key, value |-> upd[i].field_value]]

\* PUT contacts/{id} with customFields: the CRM sets the fields named and keeps
\* the others
RECURSIVE MergeCustomFields(_, _)
MergeCustomFields(raw, upd) ==
    IF upd = <<>> THEN raw
    ELSE LET u == Head(upd)
             i == IndexOfKey(raw, u.key, 1)
             e == [key |-> u.key, value |-> u.field_value]
         IN MergeCustomFields(
                IF i = 0 THEN Append(raw, e) ELSE [raw EXCEPT ![i] = e],
                Tail(upd))

RECURSIVE LastIndexOfKey(_, _, _)
LastIndexOfKey(raw, key, i) ==
    IF i = 0 THEN 0
    ELSE IF raw[i].key = key THEN i
    ELSE LastIndexOfKey(raw, key, i - 1)

\* the list of customFields turned into a dict (a later entry overwrites)
CustomFieldsDict(raw) ==
    [k \in {raw[i].key : i \in DOMAIN raw} \ {""} |->
        raw[LastIndexOfKey(raw, k, Len(raw))].value]

\* phone of the fetched contact: the conditional expression binds weaker than
\* the or-chain, so the chain is evaluated only when phoneNumbers is a list.
\* raised: the IndexError of [][0]
PhoneOf(contact) ==
    IF ~contact.phoneNumbers.isList THEN [raised |-> FALSE, phone |-> <<>>]
    ELSE IF contact.phone # <<>> THEN [raised |-> FALSE, phone |-> contact.phone]
    ELSE IF contact.phoneNumber # <<>>
        THEN [raised |-> FALSE, phone |-> contact.phoneNumber]
    ELSE IF contact.phoneNumbers.items = <<>> THEN [raised |-> TRUE, phone |-> <<>>]
    ELSE [raised |-> FALSE, phone |-> contact.phoneNumbers.items[1].number]

\* the guard reading the unprefixed key alone
AlreadyCalled_UnprefixedOnly(custom_fields) ==
    LET vapi_called == Get(custom_fields, "vapi_called")
    IN vapi_called = "true" \/ Lower(vapi_called) = "true"

\* the already-called guard
AlreadyCalled(custom_fields) ==
    LET vapi_called == Or(Get(custom_fields, "vapi_called"),
                          Get(custom_fields, "contact.vapi_called"))
    IN vapi_called = "true" \/ Lower(vapi_called) = "true"

\* the customFields of the update that marks the contact as called
CalledFieldsUpdate(call_id, leadSource) ==
    build_custom_fields_array(
        <<<<"vapi_called", "true">>, <<"vapi_call_id", call_id>>>>
        \o (IF Truthy(leadSource) THEN <<<<"lead_source", leadSource>>>> ELSE <<>>))

----------------------------------------------------------------------------
(* The webhook endpoint: POST /ghl *)

ConfiguredLocation == "LOC1"

NoRequest == [type |-> "none"]

EventTypes ==
    {"contact.created", "contact.updated", "appointment.created", "form.submitted",
     "chat.converted", "lead.created", "unknown.event"}

LocationIds == {"", ConfiguredLocation, "OTHER"}

\* hmac.new(key, msg, sha256).hexdigest(): a digest is equal to another
\* exactly when it is of the same message under the same key
HMAC(key, msg) == [key |-> key, msg |-> msg]

\* a request without the X-GHL-Signature header
NoSignature == [given |-> FALSE, prefix |-> "", hash |-> HMAC("", <<>>)]

\* the body of a webhook request: contactId is the top-level contact id,
\* dataContactId is data.contactId, leadSource is data.leadSource; signature
\* is the X-GHL-Signature header that comes with it
Payloads ==
    [type : EventTypes, locationId : LocationIds, dataLocationId : LocationIds,
     contactId : {"", "C1"}, dataContactId : {"", "C1"}, leadSource : {"", "facebook"},
     signature : {NoSignature}]

\* body_bytes: the body is told from another by its event type, its location
\* and its contact
BodyBytes(p) == <<p.type, p.locationId, p.dataLocationId, p.contactId, p.dataContactId,
                  p.leadSource>>

\* verify_ghl_webhook_signature: the hash is what follows "sha256=", or the
\* whole header
verify_ghl_webhook_signature(payload, signature) ==
    IF ~signature.given THEN FALSE
    ELSE IF ~Truthy(settings.webhook_secret) THEN FALSE
    ELSE LET received_hash == signature.hash
             expected_signature == HMAC(settings.webhook_secret, payload)
         IN expected_signature = received_hash

\* the request is refused for its signature
SignatureRefused(p) ==
    /\ Truthy(settings.webhook_secret)
    /\ ~verify_ghl_webhook_signature(BodyBytes(p), p.signature)

\* the requests of the lead lifecycle
LeadPayloads ==
    { p \in Payloads :
        /\ p.type = "contact.created"
        /\ p.locationId \in {ConfiguredLocation, "OTHER"}
        /\ p.dataLocationId = ""
        /\ p.contactId = "C1"
        /\ p.dataContactId = ""
        /\ p.leadSource = "" }

\* location_id after the fallbacks to data.locationId and to the configured id
LocationIdOf(p) ==
    IF p.locationId # "" THEN p.locationId
    ELSE IF p.dataLocationId # "" THEN p.dataLocationId
    ELSE ConfiguredLocation

\* the check made on the top-level locationId alone
LocationMismatch_TopLevelOnly(p) ==
    p.locationId # "" /\ p.locationId # ConfiguredLocation

LocationMismatch(p) ==
    LET location_id == LocationIdOf(p)
    IN location_id # "" /\ location_id # ConfiguredLocation

\* the handler the event type is routed to
HandlerOf(event_type) ==
    IF event_type \in {"contact.created", "contact.updated"} THEN "handle_new_lead"
    ELSE IF event_type = "appointment.created" THEN "handle_appointment_created"
    ELSE IF event_type = "form.submitted" THEN "handle_form_submission"
    ELSE IF event_type \in {"conversation.created", "chat.converted", "webchat.converted"}
        THEN "handle_chat_conversion"
    ELSE IF event_type \in {"lead.created", "ad.submission", "google.lead", "meta.lead",
                            "facebook.lead"}
        THEN "handle_ad_lead"
    ELSE "none"

\* the contact id the routed handler passes to handle_new_lead
LeadContactId(p) ==
    IF HandlerOf(p.type) = "handle_new_lead" THEN p.contactId
    ELSE IF HandlerOf(p.type) \in {"handle_form_submission", "handle_chat_conversion",
                                   "handle_ad_lead"}
        THEN p.dataContactId
    ELSE ""

\* data.leadSource as handle_new_lead sees it (handle_ad_lead fills it in)
LeadSourceOf(p) ==
    IF HandlerOf(p.type) = "handle_ad_lead" /\ p.leadSource = "" THEN "unknown"
    ELSE p.leadSource

CallIds == <<"call-1", "call-2", "call-3", "call-4">>

\* a request in progress
NewRequest(p) ==
    [event |-> p.type, handler |-> "none", contact_id |-> "", leadSource |-> "",
     pc |-> "done", resp |-> "", reason |-> "", status_code |-> 200,
     phone_clean |-> <<>>, call_id |-> "", update |-> <<>>]

\* the request is answered {status: ok, event: ...}; its locals are gone
Done(slot) ==
    [slot EXCEPT !.pc = "done", !.resp = "ok", !.phone_clean = <<>>, !.call_id = "",
                 !.update = <<>>]

\* the except handing the exception on to ghl_webhook, which answers HTTP 500
LeadFailed_Reraised(slot) == [Done(slot) EXCEPT !.resp = "error"]

\* the except of handle_new_lead: the exception is logged, handle_new_lead
\* returns and the request is answered
LeadFailed(slot) == Done(slot)

\* a log line; status is the call status it names, if any
Line(line) == [line |-> line, status |-> ""]

\* the HTTPException 401 is raised inside the try of ghl_webhook, whose except
\* Exception catches it and raises HTTPException 500 in its place
Refused(r) == [r EXCEPT !.resp = "error", !.status_code = 500]

\* ghl_webhook from the parsed body up to the first await of handle_new_lead,
\* or up to the response when there is none
Dispatched(p) ==
    LET r == NewRequest(p)
        h == [r EXCEPT !.handler = HandlerOf(p.type), !.contact_id = LeadContactId(p),
                       !.leadSource = LeadSourceOf(p)]
    IN IF SignatureRefused(p) THEN Refused(r)
       ELSE IF LocationMismatch(p)
           THEN [r EXCEPT !.resp = "ignored", !.reason = "location_mismatch"]
       ELSE IF h.handler \in {"none", "handle_appointment_created"} THEN Done(h)
       ELSE IF h.contact_id = "" THEN Done(h)
       ELSE [h EXCEPT !.pc = "get_contact"]

\* the line logged last while dispatching
DispatchLine(p) ==
    IF SignatureRefused(p) THEN "signature_refused"
    ELSE IF LocationMismatch(p) THEN "location_mismatch"
    ELSE IF HandlerOf(p.type) = "none" THEN "unhandled_event"
    ELSE IF HandlerOf(p.type) = "handle_appointment_created" THEN "appointment_created"
    ELSE IF LeadContactId(p) = "" THEN "no_contact_id"
    ELSE "received"

\* a webhook request of the lead lifecycle arrives and is dispatched
Receive ==
    /\ inbox = NoRequest
    /\ Len(dl) < MaxDeliveries
    /\ \E p \in LeadPayloads :
          /\ dl' = Append(dl, Dispatched(p))
          /\ log' = Line(DispatchLine(p))
    /\ UNCHANGED <<inbox, crm, calls, tasks, sms, edits, availVars, createVars, configVars, bookVars, classifyVars>>

\* the request whose body has been read is dispatched
Dispatch ==
    /\ inbox # NoRequest
    /\ dl' = Append(dl, Dispatched(inbox))
    /\ log' = Line(DispatchLine(inbox))
    /\ inbox' = NoRequest
    /\ UNCHANGED <<crm, calls, tasks, sms, edits, availVars, createVars, configVars, bookVars, classifyVars>>

\* handle_new_lead from the answer of ghl.get_contact to the create-call request
LeadGetContactReturns(d) ==
    /\ dl[d].pc = "get_contact"
    /\ \E found \in BOOLEAN :
        LET ph == PhoneOf(crm)
            v == validate_phone_number(ph.phone)
            slot == dl[d]
            line == IF ~found THEN "not_found"
                    ELSE IF ph.raised THEN "index_error"
                    ELSE IF ph.phone = <<>> THEN "no_phone"
                    ELSE IF ~v.ok THEN "invalid_phone"
                    ELSE IF AlreadyCalled(CustomFieldsDict(crm.customFields))
                        THEN "already_called"
                    ELSE "phone_found"
        IN /\ dl' = [dl EXCEPT ![d] =
                 IF line = "phone_found"
                     THEN [slot EXCEPT !.pc = "create_call", !.phone_clean = v.value]
                 ELSE IF line = "index_error" THEN LeadFailed(slot)
                 ELSE Done(slot)]
           /\ log' = Line(line)
    /\ UNCHANGED <<inbox, crm, calls, tasks, sms, edits, availVars, createVars, configVars, bookVars, classifyVars>>

\* a handler that goes on to mark the contact when the call was not created
LeadCreateCallReturns_MarksAnyway(d) ==
    /\ dl[d].pc = "create_call"
    /\ \/ /\ Len(calls) < Len(CallIds)
          /\ LET call_id == CallIds[Len(calls) + 1]
             IN /\ calls' = Append(calls, [id |-> call_id, number |-> dl[d].phone_clean])
                /\ dl' = [dl EXCEPT ![d] =
                      [@ EXCEPT !.pc = "update_contact", !.call_id = call_id,
                                !.update = CalledFieldsUpdate(call_id, dl[d].leadSource)]]
                /\ log' = Line("call_created")
       \/ /\ dl' = [dl EXCEPT ![d] =
                [@ EXCEPT !.pc = "update_contact",
                          !.update = CalledFieldsUpdate("", dl[d].leadSource)]]
          /\ log' = Line("call_failed")
          /\ calls' = calls
    /\ UNCHANGED <<inbox, crm, tasks, sms, edits, availVars, createVars, configVars, bookVars, classifyVars>>

\* from the answer of vapi.create_call to the contact update request
LeadCreateCallReturns(d) ==
    /\ dl[d].pc = "create_call"
    /\ \/ /\ Len(calls) < Len(CallIds)
          /\ LET call_id == CallIds[Len(calls) + 1]
             IN /\ calls' = Append(calls, [id |-> call_id, number |-> dl[d].phone_clean])
                /\ dl' = [dl EXCEPT ![d] =
                      [@ EXCEPT !.pc = "update_contact", !.call_id = call_id,
                                !.update = CalledFieldsUpdate(call_id, dl[d].leadSource)]]
                /\ log' = Line("call_created")
       \/ /\ dl' = [dl EXCEPT ![d] = LeadFailed(@)]
          /\ log' = Line("call_failed")
          /\ calls' = calls
    /\ UNCHANGED <<inbox, crm, tasks, sms, edits, availVars, createVars, configVars, bookVars, classifyVars>>

NewTask(slot) ==
    [call_id |-> slot.call_id, contact_id |-> slot.contact_id, phone |-> slot.phone_clean,
     pc |-> "sleep", call_status |-> "", update |-> <<>>]

\* a handler that schedules the fallback check whatever the update answered
LeadUpdateContactReturns_SchedulesAnyway(d) ==
    /\ dl[d].pc = "update_contact"
    /\ \/ /\ crm' = [crm EXCEPT !.customFields = MergeCustomFields(@, dl[d].update)]
          /\ log' = Line("initiated")
       \/ /\ crm' = crm
          /\ log' = Line("update_failed")
    /\ tasks' = Append(tasks, NewTask(dl[d]))
    /\ dl' = [dl EXCEPT ![d] = Done(@)]
    /\ UNCHANGED <<inbox, calls, sms, edits, availVars, createVars, configVars, bookVars, classifyVars>>

\* from the answer of ghl.update_contact to the response: the fallback check is
\* scheduled and the request answered
LeadUpdateContactReturns(d) ==
    /\ dl[d].pc = "update_contact"
    /\ \/ /\ crm' = [crm EXCEPT !.customFields = MergeCustomFields(@, dl[d].update)]
          /\ tasks' = Append(tasks, NewTask(dl[d]))
          /\ dl' = [dl EXCEPT ![d] = Done(@)]
          /\ log' = Line("initiated")
       \/ /\ dl' = [dl EXCEPT ![d] = LeadFailed(@)]
          /\ log' = Line("update_failed")
          /\ UNCHANGED <<crm, tasks>>
    /\ UNCHANGED <<inbox, calls, sms, edits, availVars, createVars, configVars, bookVars, classifyVars>>

----------------------------------------------------------------------------
(* The delayed fallback check: check_call_and_send_sms_fallback *)

\* the statuses the voice-AI platform may report for a call
StatusSamples == {"ended", "in-progress", "failed", "FAILED", "no-answer"}

failed_statuses == {"failed", "no-answer", "busy", "canceled"}

SmsDate == "2026-01-05T10:00:00"

\* consent taken as given when the field is missing
SmsConsent_AbsentIsTrue(custom_fields) ==
    Lower(Or(Or(Get(custom_fields, "sms_consent"),
                Get(custom_fields, "contact.sms_consent")), "true")) = "true"

SmsConsent(custom_fields) ==
    Lower(Or(Or(Get(custom_fields, "sms_consent"),
                Get(custom_fields, "contact.sms_consent")), "false")) = "true"

SmsFallbackSent(custom_fields) ==
    Lower(Or(Or(Get(custom_fields, "sms_fallback_sent"),
                Get(custom_fields, "contact.sms_fallback_sent")), "false")) = "true"

\* the condition without the already-sent guard
ShouldSendSms_IgnoresSent(sms_consent, sms_fallback_sent) == sms_consent

\* the condition under which the message is sent
ShouldSendSms(sms_consent, sms_fallback_sent) == sms_consent /\ ~sms_fallback_sent

\* the customFields of the update that marks the fallback as sent
SmsFallbackUpdate(call_status) ==
    build_custom_fields_array(
        <<<<"sms_fallback_sent", "true">>, <<"sms_fallback_date", SmsDate>>,
          <<"sms_fallback_reason", call_status>>>>)

\* the check has ended; its locals are gone
TaskDone(task) == [task EXCEPT !.pc = "done", !.call_status = "", !.update = <<>>]

\* a check that sleeps again when the call has not failed yet
FallbackGetCallReturns_Retries(t) ==
    /\ tasks[t].pc = "sleep"
    /\ \E status \in StatusSamples :
          LET call_status == Lower(status)
          IN /\ tasks' = IF call_status \in failed_statuses
                             THEN [tasks EXCEPT ![t] = [@ EXCEPT !.pc = "get_contact",
                                                            !.call_status = call_status]]
                         ELSE tasks
             /\ log' = [line |-> IF call_status \in failed_statuses
                                     THEN "call_unsuccessful"
                                 ELSE "no_fallback_needed",
                         status |-> call_status]
    /\ UNCHANGED <<inbox, dl, crm, calls, sms, edits, availVars, createVars, configVars, bookVars, classifyVars>>

\* after the sleep: the clients are constructed, outside the try (a constructor
\* that raises ends the task with its exception); then from the answer of
\* vapi.get_call to the contact fetch
FallbackGetCallReturns(t) ==
    /\ tasks[t].pc = "sleep"
    /\ \/ /\ tasks' = [tasks EXCEPT ![t] = [TaskDone(@) EXCEPT !.pc = "raised"]]
          /\ log' = Line("task_exception")
       \/ \E status \in StatusSamples :
            LET call_status == Lower(status)
            IN /\ tasks' = [tasks EXCEPT ![t] =
                     IF call_status \in failed_statuses
                         THEN [@ EXCEPT !.pc = "get_contact", !.call_status = call_status]
                     ELSE TaskDone(@)]
               /\ log' = [line |-> IF call_status \in failed_statuses
                                       THEN "call_unsuccessful"
                                   ELSE "no_fallback_needed",
                           status |-> call_status]
       \/ /\ tasks' = [tasks EXCEPT ![t] = TaskDone(@)]
          /\ log' = Line("status_error")
    /\ UNCHANGED <<inbox, dl, crm, calls, sms, edits, availVars, createVars, configVars, bookVars, classifyVars>>

\* from the answer of ghl.get_contact, through twilio.send_sms (a blocking
\* call), to the contact update request
FallbackGetContactReturns(t) ==
    /\ tasks[t].pc = "get_contact"
    /\ \E found \in BOOLEAN, delivered \in BOOLEAN :
        LET custom_fields == CustomFieldsDict(crm.customFields)
            sms_consent == SmsConsent(custom_fields)
            sms_fallback_sent == SmsFallbackSent(custom_fields)
            line == IF ~found THEN "contact_not_found"
                    ELSE IF ShouldSendSms(sms_consent, sms_fallback_sent)
                        THEN IF delivered THEN "sms_sent" ELSE "sms_failed"
                    ELSE IF ~sms_consent THEN "no_consent"
                    ELSE "already_sent"
        IN /\ IF line = "sms_sent"
                  THEN /\ sms' = Append(sms, [to |-> tasks[t].phone])
                       /\ tasks' = [tasks EXCEPT ![t] =
                             [@ EXCEPT !.pc = "update_contact",
                                  !.update = SmsFallbackUpdate(tasks[t].call_status)]]
                  ELSE /\ tasks' = [tasks EXCEPT ![t] = TaskDone(@)]
                       /\ sms' = sms
           /\ log' = Line(line)
    /\ UNCHANGED <<inbox, dl, crm, calls, edits, availVars, createVars, configVars, bookVars, classifyVars>>

\* the answer of ghl.update_contact; a failure is logged and dropped
FallbackUpdateReturns(t) ==
    /\ tasks[t].pc = "update_contact"
    /\ \/ /\ crm' = [crm EXCEPT !.customFields = MergeCustomFields(@, tasks[t].update)]
          /\ tasks' = [tasks EXCEPT ![t] = TaskDone(@)]
          /\ log' = Line("sms_recorded")
       \/ /\ tasks' = [tasks EXCEPT ![t] = TaskDone(@)]
          /\ log' = Line("sms_record_failed")
          /\ crm' = crm
    /\ UNCHANGED <<inbox, dl, calls, sms, edits, availVars, createVars, configVars, bookVars, classifyVars>>

\* another writer of the CRM record (a user or a workflow of the CRM) gives or
\* withdraws the SMS consent between two reads of the contact
ExternalEdit ==
    /\ edits < MaxEdits
    /\ edits' = edits + 1
    /\ \E v \in {"true", ""} :
          crm' = [crm EXCEPT !.customFields =
                     MergeCustomFields(@, build_custom_fields_array(<<<<"sms_consent", v>>>>))]
    /\ UNCHANGED <<inbox, dl, calls, tasks, sms, log, availVars, createVars, configVars, bookVars, classifyVars>>

----------------------------------------------------------------------------
(* The lead lifecycle: webhook deliveries and fallback checks, interleaved *)

CreateIdle ==
    /\ cc = [pc |-> "idle"]
    /\ wire = <<>>

\* no WEBHOOK_SECRET is configured
NoSecret == settings = [webhook_secret |-> None]

\* book_appointment has not been called
BookIdle == ba = [pc |-> "idle"]

\* classify_call_type has not been called
ClassifyIdle == ct = [pc |-> "idle"]

AvailIdle ==
    /\ clock = [day |-> 1, minute |-> 0]
    /\ calendar = [calendars |-> <<>>, appointments |-> <<>>]
    /\ aq = [pc |-> "idle"]
    /\ avail = <<>>
    /\ response = [pc |-> "idle"]

Contact(shape, cf) ==
    [phone |-> shape.phone, phoneNumber |-> shape.phoneNumber,
     phoneNumbers |-> shape.phoneNumbers, customFields |-> cf]

Init ==
    /\ inbox = NoRequest
    /\ dl = <<>>
    /\ \E shape \in ContactShapes, cf \in InitialCustomFields : crm = Contact(shape, cf)
    /\ calls = <<>>
    /\ tasks = <<>>
    /\ sms = <<>>
    /\ edits = 0
    /\ log = Line("")
    /\ AvailIdle
    /\ CreateIdle
    /\ NoSecret
    /\ BookIdle
    /\ ClassifyIdle

Next ==
    \/ Receive
    \/ \E d \in DOMAIN dl : LeadGetContactReturns(d)
    \/ \E d \in DOMAIN dl : LeadCreateCallReturns(d)
    \/ \E d \in DOMAIN dl : LeadUpdateContactReturns(d)
    \/ \E t \in DOMAIN tasks : FallbackGetCallReturns(t)
    \/ \E t \in DOMAIN tasks : FallbackGetContactReturns(t)
    \/ \E t \in DOMAIN tasks : FallbackUpdateReturns(t)
    \/ ExternalEdit

Spec == Init /\ [][Next]_vars

----------------------------------------------------------------------------
(* One webhook request with any body, against any contact record *)

RouteInit ==
    /\ inbox \in Payloads
    /\ dl = <<>>
    /\ \E shape \in ContactShapes :
          crm = Contact(shape, <<[key |-> "contact.sms_consent", value |-> "true"]>>)
    /\ calls = <<>>
    /\ tasks = <<>>
    /\ sms = <<>>
    /\ edits = 0
    /\ log = Line("")
    /\ AvailIdle
    /\ CreateIdle
    /\ NoSecret
    /\ BookIdle
    /\ ClassifyIdle

RouteNext ==
    \/ Dispatch
    \/ \E d \in DOMAIN dl : LeadGetContactReturns(d)
    \/ \E d \in DOMAIN dl : LeadCreateCallReturns(d)
    \/ \E d \in DOMAIN dl : LeadUpdateContactReturns(d)
    \/ \E t \in DOMAIN tasks : FallbackGetCallReturns(t)
    \/ \E t \in DOMAIN tasks : FallbackGetContactReturns(t)
    \/ \E t \in DOMAIN tasks : FallbackUpdateReturns(t)
    \/ ExternalEdit

RouteSpec == RouteInit /\ [][RouteNext]_vars

\* the secret the service is configured with, and another one
ConfiguredSecret == "whsec"

OtherSecret == "other"

\* the X-GHL-Signature headers a request with body p may come with: none, the
\* digest of the body under the configured secret, bare or after "sha256=",
\* the digest under another secret, and the digest of another body
SignaturesFor(p) ==
    { NoSignature,
      [given |-> TRUE, prefix |-> "", hash |-> HMAC(ConfiguredSecret, BodyBytes(p))],
      [given |-> TRUE, prefix |-> "sha256=", hash |-> HMAC(ConfiguredSecret, BodyBytes(p))],
      [given |-> TRUE, prefix |-> "sha256=", hash |-> HMAC(OtherSecret, BodyBytes(p))],
      [given |-> TRUE, prefix |-> "", hash |-> HMAC(ConfiguredSecret, <<>>)] }

\* requests of the configured location, each with every header
SignedRequests ==
    UNION { { [p EXCEPT !.signature = s] : s \in SignaturesFor(p) } :
            p \in { q \in Payloads : /\ q.locationId = ConfiguredLocation
                                     /\ q.dataLocationId = ""
                                     /\ q.dataContactId = ""
                                     /\ q.leadSource = "" } }

\* one request arrives at a service started with or without WEBHOOK_SECRET
SignedInit ==
    /\ inbox \in SignedRequests
    /\ dl = <<>>
    /\ \E shape \in ContactShapes :
          crm = Contact(shape, <<[key |-> "contact.sms_consent", value |-> "true"]>>)
    /\ calls = <<>>
    /\ tasks = <<>>
    /\ sms = <<>>
    /\ edits = 0
    /\ log = Line("")
    /\ AvailIdle
    /\ CreateIdle
    /\ settings \in {[webhook_secret |-> None], [webhook_secret |-> ConfiguredSecret]}
    /\ BookIdle
    /\ ClassifyIdle

SignedSpec == SignedInit /\ [][RouteNext]_vars

----------------------------------------------------------------------------
(* Properties of the lead lifecycle *)

Fields == CustomFieldsDict(crm.customFields)

\* the value stored for a custom field, under its plain or its prefixed key
FieldValues(name) ==
    {Get(Fields, name), Get(Fields, normalize_ghl_field_key(name))} \ {None}

\* C1: once handle_new_lead has run to completion for a contact (its call was
\* created, vapi_called=true was written and the fallback check scheduled),
\* every invocation for the same contact that has not read the contact yet,
\* hence every later, non-overlapping one, ends without a create-call
\* request, without a contact update and without scheduling a fallback check.
C1_IdempotentIntake ==
    [][\A d \in DOMAIN dl :
          (/\ dl[d].pc = "get_contact"
           /\ \E t \in DOMAIN tasks : tasks[t].contact_id = dl[d].contact_id)
          => /\ dl'[d].pc \in {"get_contact", "done"}
             /\ dl'[d].pc = "done" =>
                   /\ dl'[d].resp = "ok"
                   /\ UNCHANGED <<crm, calls, tasks>>]_vars

\* a second delivery has been skipped as already called after a first one
\* completed: one call, one fallback check
C1_Witness ==
    /\ Len(dl) = 2
    /\ \A d \in DOMAIN dl : dl[d].pc = "done" /\ dl[d].resp = "ok"
    /\ log.line = "already_called"
    /\ Len(calls) = 1
    /\ Len(tasks) = 1
    /\ "true" \in FieldValues("vapi_called")

\* C2: at most one fallback SMS is ever sent to a contact.
C2_AtMostOneSms ==
    \A i, j \in DOMAIN sms : sms[i].to = sms[j].to => i = j

\* C3 as stated: an SMS is sent only if the contact read in that check
\* carries sms_consent equal to "true".
C3_ConsentEqualsTrue ==
    [][sms' # sms => "true" \in FieldValues("sms_consent")]_vars

\* C3 as amended: an SMS is sent only if the contact read in that check
\* carries, under sms_consent or contact.sms_consent, a value that is "true"
\* when lower-cased; with any other value, or none, the check sends nothing
\* and goes on to no write of the sms_fallback fields.
C3_ConsentRequired ==
    [][\A t \in DOMAIN tasks :
          (/\ tasks[t].pc = "get_contact"
           /\ \A v \in FieldValues("sms_consent") : Lower(v) # "true")
          => /\ sms' = sms
             /\ tasks'[t].pc \in {"get_contact", "done"}
             /\ tasks'[t].update = <<>>]_vars

\* a message has been sent on a consent stored as "True"
C3_Witness ==
    /\ log.line = "sms_sent"
    /\ Len(sms) = 1
    /\ FieldValues("sms_consent") = {"True"}

\* the first non-empty of the contact's phone fields
RecognizedPhone(contact) ==
    IF contact.phone # <<>> THEN contact.phone
    ELSE IF contact.phoneNumber # <<>> THEN contact.phoneNumber
    ELSE IF contact.phoneNumbers.isList /\ contact.phoneNumbers.items # <<>>
        THEN contact.phoneNumbers.items[1].number
    ELSE <<>>

\* C4: a contact.created delivery whose contact is fetched with a valid phone
\* number and without vapi_called issues the create-call request to the
\* number in E.164 form; only the answer of that request leads to the update,
\* which carries vapi_called = "true" and vapi_call_id = the id of the call.
C4_CallThenMark ==
    [][\A d \in DOMAIN dl :
          /\ (/\ dl[d].event = "contact.created"
              /\ dl[d].pc = "get_contact"
              /\ dl'[d].pc # "get_contact"
              /\ log'.line # "not_found"
              /\ validate_phone_number(RecognizedPhone(crm)).ok
              /\ FieldValues("vapi_called") = {})
             => /\ dl'[d].pc = "create_call"
                /\ dl'[d].phone_clean = validate_phone_number(RecognizedPhone(crm)).value
          /\ (dl[d].pc = "create_call" /\ dl'[d].pc = "update_contact")
             => /\ Len(calls') = Len(calls) + 1
                /\ calls'[Len(calls')].number = dl[d].phone_clean
                /\ \E i \in DOMAIN dl'[d].update :
                      dl'[d].update[i] = [key |-> "contact.vapi_called",
                                          field_value |-> "true"]
                /\ \E i \in DOMAIN dl'[d].update :
                      dl'[d].update[i] = [key |-> "contact.vapi_call_id",
                                          field_value |-> calls'[Len(calls')].id]
          /\ dl'[d].pc = "update_contact" => dl[d].pc \in {"create_call", "update_contact"}]_vars

\* the consent the check reads: sms_consent, else contact.sms_consent
ConsentGiven ==
    LET v == Or(Get(Fields, "sms_consent"), Get(Fields, "contact.sms_consent"))
    IN Truthy(v) /\ Lower(v) = "true"

\* the sent mark the check reads
FallbackAlreadySent ==
    LET v == Or(Get(Fields, "sms_fallback_sent"), Get(Fields, "contact.sms_fallback_sent"))
    IN Truthy(v) /\ Lower(v) = "true"

----------------------------------------------------------------------------
(* Properties of the routing of one request *)

\* the location a request names: its top-level locationId, else data.locationId
NamedLocation(p) == IF p.locationId # "" THEN p.locationId ELSE p.dataLocationId

\* C5: a request that names a location other than the configured one is
\* answered {"status": "ignored", "reason": "location_mismatch"} and is over
\* with that: no handler is entered and nothing is asked of the CRM, the
\* voice-AI platform or the SMS gateway. A request enters a handler only if
\* the location it names, or the configured one when it names none, is the
\* configured one.
C5_LocationFilter ==
    [][(inbox # NoRequest /\ inbox' = NoRequest) =>
          LET slot == dl'[Len(dl')]
              named == NamedLocation(inbox)
          IN /\ Len(dl') = Len(dl) + 1
             /\ (named # "" /\ named # ConfiguredLocation)
                => /\ slot.resp = "ignored"
                   /\ slot.reason = "location_mismatch"
                   /\ slot.handler = "none"
                   /\ slot.pc = "done"
                   /\ UNCHANGED <<crm, calls, tasks, sms>>
             /\ slot.handler # "none" => named \in {"", ConfiguredLocation}
             /\ slot.resp = "ignored" => named \notin {"", ConfiguredLocation}]_vars

\* a contact.created request naming another location has been answered as
\* ignored, and nothing else has happened
C5_Witness ==
    /\ Len(dl) = 1
    /\ dl[1].event = "contact.created"
    /\ dl[1].resp = "ignored"
    /\ dl[1].reason = "location_mismatch"
    /\ dl[1].pc = "done"
    /\ log.line = "location_mismatch"
    /\ calls = <<>> /\ tasks = <<>> /\ sms = <<>>

----------------------------------------------------------------------------
(* Dates, times of day and ISO-8601 texts *)

\* the calendar days covered, as date.isoformat() writes them; the first is a
\* Monday
Dates ==
    <<"2025-12-22", "2025-12-23", "2025-12-24", "2025-12-25", "2025-12-26",
      "2025-12-27", "2025-12-28", "2025-12-29", "2025-12-30", "2025-12-31",
      "2026-01-01", "2026-01-02", "2026-01-03", "2026-01-04">>

Days == DOMAIN Dates

\* date.weekday(): Monday is 0, Sunday is 6
weekday(day) == (day - 1) % 7

\* the holidays when the business is closed
HOLIDAYS ==
    {"2025-01-01", "2025-07-04", "2025-12-25", "2026-01-01", "2026-07-04", "2026-12-25"}

Hours ==
    <<"00", "01", "02", "03", "04", "05", "06", "07", "08", "09", "10", "11",
      "12", "13", "14", "15", "16", "17", "18", "19", "20", "21", "22", "23">>

\* the times of day told apart, in minutes after midnight
HalfHours == {30 * i : i \in 0..47}

\* time.isoformat()
TimeTexts ==
    [m \in HalfHours |->
        Hours[(m \div 60) + 1] \o (IF m % 60 = 0 THEN ":00:00" ELSE ":30:00")]

\* the UTC offsets fromisoformat is given, in minutes
UtcOffsets == [o \in {"+00:00", "-08:00"} |-> IF o = "+00:00" THEN 0 ELSE 0 - 480]

\* the offset of America/Los_Angeles on the days covered (standard time)
PacificOffset == UtcOffsets["-08:00"]

\* an ISO-8601 text in its parts: date, time after the "T" (none: no "T"),
\* timezone designator
IsoText(date, time, offset) == [date |-> date, time |-> time, offset |-> offset]

\* None, or a key that is absent
NoText == IsoText("", "", "")

\* a or b, on texts
OrText(a, b) == IF a # NoText THEN a ELSE b

\* text.replace("Z", "+00:00")
ReplaceZ(text) == [text EXCEPT !.offset = IF @ = "Z" THEN "+00:00" ELSE @]

\* a date, a datetime, or the exception raised instead of one
Raised == [ok |-> FALSE, day |-> 0, minute |-> 0, aware |-> FALSE, utcoffset |-> 0]

\* datetime.fromisoformat(text): naive without a designator, aware with one
fromisoformat(text) ==
    IF \/ text.date \notin {Dates[d] : d \in Days}
       \/ text.time # "" /\ text.time \notin {TimeTexts[m] : m \in HalfHours}
       \/ text.offset # "" /\ text.offset \notin DOMAIN UtcOffsets
       \/ text.offset # "" /\ text.time = ""
        THEN Raised
    ELSE [ok |-> TRUE,
          day |-> CHOOSE d \in Days : Dates[d] = text.date,
          minute |-> IF text.time = "" THEN 0
                     ELSE CHOOSE m \in HalfHours : TimeTexts[m] = text.time,
          aware |-> text.offset # "",
          utcoffset |-> IF text.offset = "" THEN 0 ELSE UtcOffsets[text.offset]]

\* datetime.fromisoformat(s.split("T")[0] if "T" in s else s): None has no
\* "in", which raises as well
DateFromIso(text) ==
    IF text = NoText THEN Raised ELSE fromisoformat(IsoText(text.date, "", ""))

\* date.strftime("%Y-%m-%d") and date.isoformat()
DateText(day) == IsoText(Dates[day], "", "")

\* datetime.isoformat() of a naive datetime
isoformat(day, minute) == IsoText(Dates[day], TimeTexts[minute], "")

\* the instant of an aware datetime, in minutes
Instant(dt) == dt.day * 1440 + dt.minute - dt.utcoffset

\* dt.replace(tzinfo=pacific_tz) of a naive datetime, dt.astimezone(pacific_tz)
\* of an aware one
ToPacific(dt) ==
    IF ~dt.aware THEN [dt EXCEPT !.aware = TRUE, !.utcoffset = PacificOffset]
    ELSE LET local == Instant(dt) + PacificOffset
         IN [dt EXCEPT !.day = local \div 1440, !.minute = local % 1440,
                       !.utcoffset = PacificOffset]

----------------------------------------------------------------------------
(* GHLClient.get_calendar_availability *)

\* time(8, 0) and time(16, 30), in minutes after midnight
business_start == 480
business_end == 990

\* timedelta(hours=1), in minutes
slot_duration == 60

\* an appointment as the CRM lists it
Appointment(startTime, endTime) ==
    [startTime |-> startTime, start_time |-> NoText,
     endTime |-> endTime, end_time |-> NoText]

\* the position of a naive datetime on the wall clock, in minutes
Naive(dt) == dt.day * 1440 + dt.minute

\* one pass of the loop over the appointments: "conflict" when the overlap
\* test is true, "free" when it is false or the appointment has no times,
\* "raised" when parsing raises ValueError or comparing the naive slot time
\* with an aware appointment time raises TypeError (both swallowed)
Conflict(day, current_time, slot_end, apt) ==
    LET apt_start == OrText(apt.startTime, apt.start_time)
        apt_end == OrText(apt.endTime, apt.end_time)
        apt_start_dt == fromisoformat(ReplaceZ(apt_start))
        apt_end_dt == fromisoformat(ReplaceZ(apt_end))
    IN IF apt_start = NoText \/ apt_end = NoText THEN "free"
       ELSE IF ~apt_start_dt.ok \/ ~apt_end_dt.ok THEN "raised"
       ELSE IF apt_start_dt.aware THEN "raised"
       ELSE IF day * 1440 + slot_end <= Naive(apt_start_dt) THEN "free"
       ELSE IF apt_end_dt.aware THEN "raised"
       ELSE IF day * 1440 + current_time >= Naive(apt_end_dt) THEN "free"
       ELSE "conflict"

\* the slot appended when an exception raised for one appointment ends the
\* loop over the appointments
Slot_StopsAtError(day, current_time, existing_appointments) ==
    LET slot_end == current_time + slot_duration
        passes == [i \in DOMAIN existing_appointments |->
                      Conflict(day, current_time, slot_end, existing_appointments[i])]
    IN [startTime |-> isoformat(day, current_time),
        endTime |-> isoformat(day, slot_end),
        available |-> \A i \in DOMAIN passes :
            passes[i] = "conflict" => \E j \in 1..(i - 1) : passes[j] = "raised"]

\* the slot appended for current_time
Slot(day, current_time, existing_appointments) ==
    LET slot_end == current_time + slot_duration
    IN [startTime |-> isoformat(day, current_time),
        endTime |-> isoformat(day, slot_end),
        available |-> \A i \in DOMAIN existing_appointments :
            Conflict(day, current_time, slot_end, existing_appointments[i]) # "conflict"]

\* the inner loop: the slots of one day from current_time on
RECURSIVE DaySlots(_, _, _)
DaySlots(day, current_time, existing_appointments) ==
    IF ~(current_time < business_end) THEN <<>>
    ELSE IF current_time + slot_duration > business_end THEN <<>>
    ELSE <<Slot(day, current_time, existing_appointments)>>
         \o DaySlots(day, current_time + slot_duration, existing_appointments)

\* a day on which slots are generated: Monday to Friday
WorkingDay(current_date) == weekday(current_date) < 5

\* the outer loop: the slots of the days from current_date to end
RECURSIVE RangeSlots(_, _, _)
RangeSlots(current_date, end, existing_appointments) ==
    IF ~(current_date <= end) THEN <<>>
    ELSE (IF WorkingDay(current_date)
              THEN DaySlots(current_date, business_start, existing_appointments)
          ELSE <<>>)
         \o RangeSlots(current_date + 1, end, existing_appointments)

\* what get_calendar_availability returns once the appointments are known:
\* the slots, or [] when a date does not parse
GeneratedSlots(start_date, end_date, existing_appointments) ==
    LET start == DateFromIso(start_date)
        end == DateFromIso(end_date)
    IN IF ~start.ok \/ ~end.ok THEN <<>>
       ELSE RangeSlots(start.day, end.day, existing_appointments)

----------------------------------------------------------------------------
(* check_calendar_availability *)

\* current_datetime: the clock as an aware datetime
CurrentDatetime(now) ==
    [ok |-> TRUE, day |-> now.day, minute |-> now.minute, aware |-> TRUE,
     utcoffset |-> PacificOffset]

\* the except branch of the date validation
WindowAfterError(request, now) ==
    [start_date |-> DateText(now.day + 1),
     end_date |-> IF request.end_date = NoText THEN DateText(now.day + 8)
                  ELSE request.end_date]

\* the date validation: start_date and end_date as they are passed on
Window(request, now) ==
    LET current_date == now.day
        start_dt == IF request.start_date # NoText THEN DateFromIso(request.start_date)
                    ELSE [Raised EXCEPT !.ok = TRUE, !.day = current_date]
        advanced == \/ start_dt.day < current_date
                    \/ start_dt.day = current_date /\ now.minute >= business_end
        start_date_obj == IF advanced THEN current_date + 1 ELSE start_dt.day
        start_date == IF advanced THEN DateText(start_date_obj) ELSE request.start_date
        end_dt == DateFromIso(request.end_date)
    IN IF ~start_dt.ok THEN WindowAfterError(request, now)
       ELSE IF request.end_date = NoText
           THEN [start_date |-> start_date, end_date |-> DateText(start_date_obj + 7)]
       ELSE IF ~end_dt.ok THEN WindowAfterError(request, now)
       ELSE IF end_dt.day < start_date_obj
           THEN [start_date |-> start_date, end_date |-> DateText(start_date_obj + 7)]
       ELSE [start_date |-> start_date, end_date |-> request.end_date]

\* the keywords a lower-cased calendar name contains
KeywordsIn(calendar_name_lower) ==
    CASE calendar_name_lower = "repair & service" -> {"repair", "service"}
      [] calendar_name_lower = "service calls" -> {"service call", "service"}
      [] calendar_name_lower = "sales estimates" -> {"estimate", "sales"}
      [] calendar_name_lower = "install team" -> {"install"}
      [] OTHER -> {}

\* the keywords looked for, by service type
KeywordsFor(service_type) ==
    CASE service_type \in {"repair", "maintenance"} ->
             {"diagnostic", "service call", "repair", "service"}
      [] service_type = "estimate" -> {"proposal", "estimate", "sales"}
      [] service_type = "installation" -> {"install"}
      [] OTHER -> {}

\* the first calendar listed, whatever its name; "" when there is none
ResolvedCalendar_FirstListed(service_type, calendars) ==
    IF calendars # <<>> THEN calendars[1].id ELSE ""

\* the calendar chosen among those listed: the first whose name has a keyword
\* of the service type, else the first; "" when there is none
ResolvedCalendar(service_type, calendars) ==
    LET matches == {i \in DOMAIN calendars :
                       KeywordsIn(Lower(calendars[i].name)) \cap KeywordsFor(service_type) # {}}
    IN IF matches # {}
           THEN calendars[CHOOSE i \in matches : \A j \in matches : i <= j].id
       ELSE IF calendars # <<>> THEN calendars[1].id
       ELSE ""

\* the loop keeping a slot that starts at the current instant
Offered_FromNowOn(slot, current_datetime) ==
    LET dt == fromisoformat(slot.startTime)
    IN /\ slot.available
       /\ slot.startTime # NoText
       /\ dt.ok
       /\ ~(Instant(ToPacific(dt)) < Instant(current_datetime))

\* whether the loop over the availability keeps a slot
Offered(slot, current_datetime) ==
    LET dt == fromisoformat(slot.startTime)
    IN /\ slot.available
       /\ slot.startTime # NoText
       /\ dt.ok
       /\ ~(Instant(ToPacific(dt)) <= Instant(current_datetime))

CalendarSlot(slot) ==
    [start_time |-> slot.startTime, end_time |-> slot.endTime, available |-> TRUE]

\* the loop over the availability
RECURSIVE ProcessedSlots(_, _)
ProcessedSlots(availability, current_datetime) ==
    IF availability = <<>> THEN <<>>
    ELSE (IF Offered(Head(availability), current_datetime)
              THEN <<CalendarSlot(Head(availability))>>
          ELSE <<>>)
         \o ProcessedSlots(Tail(availability), current_datetime)

----------------------------------------------------------------------------
(* One availability query against a calendar *)

\* the moments at which a query is made
NowSamples ==
    { [day |-> 2, minute |-> 600], [day |-> 2, minute |-> 990], [day |-> 3, minute |-> 510] }

Malformed == IsoText("next week", "", "")

\* the appointment lists the CRM may hold for the calendar
AppointmentLists ==
    { <<>>,
      <<Appointment(IsoText("2025-12-23", "11:00:00", ""),
                    IsoText("2025-12-23", "12:00:00", ""))>>,
      <<Appointment(IsoText("2025-12-24", "18:00:00", "Z"),
                    IsoText("2025-12-24", "19:00:00", "Z"))>>,
      <<[startTime |-> NoText, start_time |-> IsoText("2025-12-24", "09:30:00", ""),
         endTime |-> NoText, end_time |-> IsoText("2025-12-24", "10:30:00", "")]>>,
      <<Appointment(Malformed, Malformed),
        Appointment(IsoText("2025-12-26", "13:00:00", ""),
                    IsoText("2025-12-26", "14:00:00", ""))>>,
      <<Appointment(IsoText("2025-12-24", "10:00:00", ""), Malformed),
        Appointment(IsoText("2025-12-24", "14:00:00", ""),
                    IsoText("2025-12-24", "15:00:00", "")),
        Appointment(Malformed, IsoText("2025-12-24", "12:00:00", ""))>> }

\* the calendars the location may have
CalendarLists ==
    { <<>>,
      <<[id |-> "cal-general", name |-> "General"],
        [id |-> "cal-calls", name |-> "Service Calls"],
        [id |-> "cal-repair", name |-> "Repair & Service"],
        [id |-> "cal-sales", name |-> "Sales Estimates"]>>,
      <<[id |-> "cal-install", name |-> "Install Team"]>> }

\* the requests: CheckCalendarAvailabilityRequest
Requests ==
    { [start_date |-> start_date, end_date |-> end_date,
       calendar_id |-> choice[1], service_type |-> choice[2]] :
        start_date \in {NoText, DateText(1), DateText(2), DateText(5), Malformed,
                        IsoText("2025-12-24", "09:00:00", "")},
        end_date \in {NoText, DateText(2), DateText(5), Malformed},
        choice \in {<<"cal-repair", "repair">>, <<"", "repair">>, <<"", "maintenance">>,
                    <<"", "estimate">>, <<"", "installation">>} }

\* the request is received: the dates are validated and the first CRM request
\* is made
CheckAvailability ==
    /\ aq.pc = "idle"
    /\ \E request \in Requests :
          LET window == Window(request, clock)
          IN aq' = [pc |-> IF request.calendar_id = "" THEN "get_calendars"
                           ELSE "get_appointments",
                    request |-> request,
                    start_date |-> window.start_date,
                    end_date |-> window.end_date,
                    calendar_id |-> request.calendar_id,
                    existing_appointments |-> <<>>,
                    warned |-> FALSE]
    /\ UNCHANGED <<webVars, createVars, configVars, bookVars, classifyVars, clock, calendar, avail, response>>

\* the answer of ghl.get_calendars: the calendar is chosen, or the error goes
\* to the caller
GetCalendarsReturns ==
    /\ aq.pc = "get_calendars"
    /\ \/ LET calendar_id == ResolvedCalendar(aq.request.service_type, calendar.calendars)
          IN IF calendar_id = ""
                 THEN /\ aq' = [aq EXCEPT !.pc = "done"]
                      /\ response' = [pc |-> "returned", slots |-> <<>>, calendar_id |-> ""]
             ELSE /\ aq' = [aq EXCEPT !.pc = "get_appointments", !.calendar_id = calendar_id]
                  /\ response' = response
       \/ /\ aq' = [aq EXCEPT !.pc = "done"]
          /\ response' = [pc |-> "raised", slots |-> <<>>, calendar_id |-> ""]
    /\ UNCHANGED <<webVars, createVars, configVars, bookVars, classifyVars, clock, calendar, avail>>

\* get_calendar_availability from its list of appointments to its return, and
\* check_calendar_availability from there to its response
Respond(existing_appointments, warned) ==
    LET availability == GeneratedSlots(aq.start_date, aq.end_date, existing_appointments)
    IN /\ aq' = [aq EXCEPT !.pc = "done", !.existing_appointments = existing_appointments,
                           !.warned = warned]
       /\ avail' = availability
       /\ response' = [pc |-> "returned",
                       slots |-> ProcessedSlots(availability, CurrentDatetime(clock)),
                       calendar_id |-> aq.calendar_id]

\* the answer to GET calendars/{id}/appointments: the appointments, a 404, or
\* another error, which is logged as a warning
GetAppointmentsReturns ==
    /\ aq.pc = "get_appointments"
    /\ \/ Respond(calendar.appointments, FALSE)
       \/ /\ aq' = [aq EXCEPT !.pc = "get_appointments_alt"]
          /\ UNCHANGED <<avail, response>>
       \/ Respond(<<>>, TRUE)
    /\ UNCHANGED <<webVars, createVars, configVars, bookVars, classifyVars, clock, calendar>>

\* the answer to GET appointments, tried after a 404
GetAppointmentsAltReturns ==
    /\ aq.pc = "get_appointments_alt"
    /\ \/ Respond(calendar.appointments, FALSE)
       \/ Respond(<<>>, TRUE)
    /\ UNCHANGED <<webVars, createVars, configVars, bookVars, classifyVars, clock, calendar>>

AvailInit ==
    /\ inbox = NoRequest
    /\ dl = <<>>
    /\ crm = Contact(CHOOSE shape \in ContactShapes : shape.phone = PhonePretty, <<>>)
    /\ calls = <<>>
    /\ tasks = <<>>
    /\ sms = <<>>
    /\ edits = 0
    /\ log = Line("")
    /\ clock \in NowSamples
    /\ \E calendars \in CalendarLists, appointments \in AppointmentLists :
          calendar = [calendars |-> calendars, appointments |-> appointments]
    /\ aq = [pc |-> "idle"]
    /\ avail = <<>>
    /\ response = [pc |-> "idle"]
    /\ CreateIdle
    /\ NoSecret
    /\ BookIdle
    /\ ClassifyIdle

AvailNext ==
    \/ CheckAvailability
    \/ GetCalendarsReturns
    \/ GetAppointmentsReturns
    \/ GetAppointmentsAltReturns

AvailSpec == AvailInit /\ [][AvailNext]_vars

----------------------------------------------------------------------------
(* Properties of the availability query *)

\* the appointments get_calendar_availability compared the slots with
Existing == IF aq.pc = "done" /\ response.pc = "returned" /\ response.calendar_id # ""
                THEN aq.existing_appointments
            ELSE <<>>

\* the interval of an appointment on the Pacific wall clock, if its times can
\* be read
Interval(apt) ==
    LET apt_start == fromisoformat(ReplaceZ(OrText(apt.startTime, apt.start_time)))
        apt_end == fromisoformat(ReplaceZ(OrText(apt.endTime, apt.end_time)))
    IN [ok |-> apt_start.ok /\ apt_end.ok,
        start |-> Naive(IF apt_start.aware THEN ToPacific(apt_start) ELSE apt_start),
        end |-> Naive(IF apt_end.aware THEN ToPacific(apt_end) ELSE apt_end)]

\* the half-open interval of the slot and that of the appointment overlap
Overlaps(slot, apt) ==
    LET s == Naive(fromisoformat(slot.startTime))
        e == Naive(fromisoformat(slot.endTime))
        i == Interval(apt)
    IN i.ok /\ ~(e <= i.start \/ s >= i.end)

\* C7: a generated slot is marked available = false if and only if the
\* half-open interval of some fetched appointment overlaps the slot's, whether
\* the appointment times carry a timezone designator or not.
C7_UnavailableIffOverlap ==
    \A k \in DOMAIN avail :
        ~avail[k].available <=> \E i \in DOMAIN Existing : Overlaps(avail[k], Existing[i])

\* C8: every generated slot starts and ends inside 08:00-16:30 of its own day,
\* and none is generated for a Saturday, a Sunday or a holiday.
C8_FieldHoursWeekdaysNoHoliday ==
    \A k \in DOMAIN avail :
        LET s == fromisoformat(avail[k].startTime)
            e == fromisoformat(avail[k].endTime)
        IN /\ s.ok /\ e.ok
           /\ s.day = e.day
           /\ business_start <= s.minute /\ s.minute < e.minute /\ e.minute <= business_end
           /\ weekday(s.day) \notin {5, 6}
           /\ avail[k].startTime.date \notin HOLIDAYS

\* C9: when a CRM request of the query failed, the query ends in a failure
\* and returns no slots; slots are returned only with a fetched appointment
\* list.
C9_FailureSurfaced ==
    (aq.pc = "done" /\ aq.warned) => response.pc = "raised" /\ response.slots = <<>>

\* C10: every slot of the response has available = true and starts strictly
\* after the current instant in America/Los_Angeles, and no slot that
\* get_calendar_availability marked unavailable is in the response.
C10_OnlyFutureAvailable ==
    response.pc = "returned" =>
        \A k \in DOMAIN response.slots :
            LET slot == response.slots[k]
                dt == fromisoformat(slot.start_time)
            IN /\ slot.available
               /\ dt.ok
               /\ dt.day * 1440 + dt.minute > clock.day * 1440 + clock.minute
               /\ \E j \in DOMAIN avail :
                     /\ avail[j].startTime = slot.start_time
                     /\ avail[j].endTime = slot.end_time
                     /\ avail[j].available
               /\ ~\E j \in DOMAIN avail :
                     avail[j].startTime = slot.start_time /\ ~avail[j].available

\* a response that leaves out a slot starting at the current instant and a
\* slot marked unavailable, and offers the slot after them
C10_Witness ==
    /\ response.pc = "returned"
    /\ clock = [day |-> 2, minute |-> 600]
    /\ \E j \in DOMAIN avail : avail[j].startTime = isoformat(2, 600) /\ avail[j].available
    /\ \E j \in DOMAIN avail : avail[j].startTime = isoformat(2, 660) /\ ~avail[j].available
    /\ \E k \in DOMAIN response.slots : response.slots[k].start_time = isoformat(2, 720)
    /\ \A k \in DOMAIN response.slots :
          response.slots[k].start_time \notin {isoformat(2, 600), isoformat(2, 660)}

\* the dates of the window passed on to get_calendar_availability
QueriedStart == DateFromIso(aq.start_date)
QueriedEnd == DateFromIso(aq.end_date)

\* C11: once the dates of a request are validated, a start_date of today at
\* or past 16:30, or before today, has become tomorrow; a start_date of today
\* before 16:30, or a future one, is unchanged; an end_date that is missing or
\* earlier than the effective start date has become that date + 7 days; and
\* the window queried always has end >= start >= today.
C11_WindowNormalized ==
    aq.pc # "idle" =>
        LET today == clock.day
            asked == DateFromIso(aq.request.start_date)
            askedEnd == DateFromIso(aq.request.end_date)
        IN /\ (asked.ok /\ asked.day = today /\ clock.minute >= 990)
              => QueriedStart.ok /\ QueriedStart.day = today + 1
           /\ (asked.ok /\ asked.day < today)
              => QueriedStart.ok /\ QueriedStart.day = today + 1
           /\ (asked.ok /\ (asked.day > today \/ (asked.day = today /\ clock.minute < 990)))
              => aq.start_date = aq.request.start_date
           /\ (QueriedStart.ok /\ (aq.request.end_date = NoText
                                   \/ (askedEnd.ok /\ askedEnd.day < QueriedStart.day)))
              => aq.end_date = DateText(QueriedStart.day + 7)
           /\ QueriedStart.ok /\ QueriedEnd.ok
           /\ today <= QueriedStart.day /\ QueriedStart.day <= QueriedEnd.day

\* the window of the same request with today's date as its start_date
WindowFromToday == Window([aq.request EXCEPT !.start_date = DateText(clock.day)], clock)

\* C29: a request without start_date, made before 16:30, is answered with the
\* slots of the same request made with today's date as start_date: the same
\* window is passed on and the same slots are returned.
C29_OmittedStartIsToday ==
    (/\ aq.pc = "done"
     /\ response.pc = "returned"
     /\ response.calendar_id # ""
     /\ aq.request.start_date = NoText
     /\ clock.minute < 990)
    => /\ DateFromIso(aq.start_date) = DateFromIso(WindowFromToday.start_date)
       /\ aq.end_date = WindowFromToday.end_date
       /\ response.slots =
             ProcessedSlots(GeneratedSlots(WindowFromToday.start_date,
                                           WindowFromToday.end_date,
                                           aq.existing_appointments),
                            CurrentDatetime(clock))

\* both times of the appointment can be parsed
WellFormed(apt) == Interval(apt).ok

\* the times of the appointment carry no timezone designator
Undesignated(apt) ==
    /\ OrText(apt.startTime, apt.start_time).offset = ""
    /\ OrText(apt.endTime, apt.end_time).offset = ""

\* the days from..to on which slots are generated
Weekdays(from, to) == {d \in from..to : weekday(d) < 5}

ServiceKeywords ==
    [service_type \in {"repair", "maintenance", "estimate", "installation"} |->
        CASE service_type \in {"repair", "maintenance"} ->
                 {"diagnostic", "service call", "repair", "service"}
          [] service_type = "estimate" -> {"proposal", "estimate", "sales"}
          [] OTHER -> {"install"}]

\* the positions of the calendars whose lower-cased name contains a keyword
\* of the requested service type
Matching ==
    {i \in DOMAIN calendar.calendars :
        KeywordsIn(Lower(calendar.calendars[i].name))
            \cap ServiceKeywords[aq.request.service_type] # {}}

\* C19: a supplied calendar id is used unchanged and no calendars are listed
\* for it; otherwise the appointments are fetched for the first calendar, in
\* the order returned, whose lower-cased name contains a keyword of the
\* service type, or for the first calendar returned when none matches; when
\* no calendar is returned the response has no slots and an empty calendar
\* id, and no appointments are fetched.
C19_CalendarResolution ==
    aq.pc # "idle" =>
        LET fetching == aq.pc \in {"get_appointments", "get_appointments_alt"}
            answered == aq.pc = "done" /\ response.pc = "returned"
        IN /\ aq.request.calendar_id # ""
              => /\ aq.pc # "get_calendars"
                 /\ aq.calendar_id = aq.request.calendar_id
                 /\ answered => response.calendar_id = aq.request.calendar_id
           /\ (aq.request.calendar_id = "" /\ calendar.calendars # <<>>
               /\ (fetching \/ answered))
              => /\ \E i \in DOMAIN calendar.calendars :
                       /\ aq.calendar_id = calendar.calendars[i].id
                       /\ IF Matching = {} THEN i = 1
                          ELSE i \in Matching /\ \A j \in Matching : i <= j
                 /\ answered => response.calendar_id = aq.calendar_id
           /\ (aq.request.calendar_id = "" /\ calendar.calendars = <<>>)
              => /\ ~fetching
                 /\ answered
                    => /\ response.slots = <<>> /\ response.calendar_id = ""
                       /\ avail = <<>> /\ aq.existing_appointments = <<>>

\* a repair request without a calendar id has been answered for the second
\* calendar listed, the first of two whose names have a repair keyword
C19_Witness ==
    /\ aq.pc = "done" /\ response.pc = "returned"
    /\ aq.request.calendar_id = ""
    /\ aq.request.service_type = "repair"
    /\ Matching = {2, 3}
    /\ response.calendar_id = calendar.calendars[2].id
    /\ response.slots # <<>>

----------------------------------------------------------------------------
(* Properties of failures in the lead lifecycle *)

\* C15: no failure inside the fallback check leaves the background task as an
\* exception, and the request that scheduled a check has been answered
\* {status: ok} however the check ends.
C15_FallbackFailuresContained ==
    /\ \A t \in DOMAIN tasks : tasks[t].pc # "raised"
    /\ tasks # <<>>
       => \E d \in DOMAIN dl :
             /\ dl[d].contact_id = tasks[1].contact_id
             /\ dl[d].pc = "done"
             /\ dl[d].resp = "ok"

\* C16: a request that passes the location check is answered
\* {"status": "ok", "event": <its type>}, whatever its event type and whatever
\* happens while the lead is handled: the contact is not found or its fetch
\* fails, the create-call request fails, the contact update fails. No request
\* is answered with an error.
C16_AlwaysOk ==
    [][/\ (inbox # NoRequest /\ inbox' = NoRequest
            /\ NamedLocation(inbox) \in {"", ConfiguredLocation})
           => LET slot == dl'[Len(dl')]
              IN /\ slot.event = inbox.type
                 /\ slot.resp = IF slot.pc = "done" THEN "ok" ELSE ""
       /\ \A d \in DOMAIN dl :
             /\ dl'[d].event = dl[d].event
             /\ dl'[d].resp = IF dl'[d].pc = "done" /\ dl[d].pc # "done" THEN "ok"
                              ELSE dl[d].resp]_vars

\* a form submission whose create-call request succeeded and whose contact
\* update failed has been answered ok
C16_Witness ==
    /\ Len(dl) = 1
    /\ dl[1].event = "form.submitted"
    /\ dl[1].pc = "done"
    /\ dl[1].resp = "ok"
    /\ Len(calls) = 1
    /\ log.line = "update_failed"

\* the contact has no phone under phone, phoneNumber or phoneNumbers[0].number
NoRecognizedPhone(contact) ==
    /\ contact.phone = <<>>
    /\ contact.phoneNumber = <<>>
    /\ \/ ~contact.phoneNumbers.isList
       \/ contact.phoneNumbers.items = <<>>
       \/ contact.phoneNumbers.items[1].number = <<>>

\* the phone has ten digits, eleven digits of which the first is 1, or more
\* than eleven digits
Normalizable(phone) ==
    LET n == Len(SelectSeq(phone, IsDigit))
    IN n = 10 \/ (n = 11 /\ SelectSeq(phone, IsDigit)[1] = "1") \/ n > 11

\* C17: when the contact that was fetched has no phone under any of the
\* recognized fields, or a phone that validate_phone_number rejects,
\* handle_new_lead returns without raising (the request is answered ok): no
\* create-call request is made then or later, the contact is not updated and
\* no fallback check is scheduled.
C17_NoPhoneFailsClosed ==
    [][\A d \in DOMAIN dl :
          (/\ dl[d].pc = "get_contact"
           /\ dl'[d].pc # "get_contact"
           /\ log'.line # "not_found"
           /\ \/ NoRecognizedPhone(crm)
              \/ ~Normalizable(RecognizedPhone(crm)))
          => /\ dl'[d].pc = "done"
             /\ dl'[d].resp = "ok"
             /\ log'.line \in {"no_phone", "invalid_phone", "index_error"}
             /\ UNCHANGED <<crm, calls, tasks, sms>>]_vars

\* a contact whose only number has seven digits was fetched and the request
\* answered, with no call, no update and no fallback check
C17_Witness ==
    /\ crm.phone = PhoneShort
    /\ Len(dl) = 1
    /\ dl[1].pc = "done"
    /\ dl[1].resp = "ok"
    /\ log.line = "invalid_phone"
    /\ calls = <<>>
    /\ tasks = <<>>
    /\ FieldValues("vapi_called") = {}

----------------------------------------------------------------------------
(* Properties of the webhook signature *)

\* the header carries the digest of this body under the configured secret
ValidSignature(p) ==
    /\ p.signature.given
    /\ p.signature.hash = HMAC(settings.webhook_secret, BodyBytes(p))

\* C23: with a secret configured, a request whose X-GHL-Signature is missing
\* or wrong is answered with HTTP 401, no handler runs for it and no upstream
\* call is made; without a secret the request is processed whatever its header
C23_BadSignatureIs401 ==
    [][(inbox # NoRequest /\ inbox' = NoRequest) =>
        LET r == dl'[Len(dl')]
        IN /\ (settings.webhook_secret # None /\ ~ValidSignature(inbox)) =>
                /\ r.status_code = 401
                /\ r.handler = "none"
                /\ r.pc = "done"
           /\ settings.webhook_secret = None =>
                r = [Dispatched(inbox) EXCEPT !.status_code = r.status_code]
                /\ r.resp # "error"]_vars

----------------------------------------------------------------------------
(* Properties of overlapping and repeated deliveries *)

\* the contact carries vapi_called = true, under either key
MarkedCalled == \E v \in FieldValues("vapi_called") : Lower(v) = "true"

\* C24: deliveries for one contact do not exclude one another. A delivery is
\* skipped as already called only if the contact it read carries vapi_called
\* = true, whatever the other deliveries are doing; each delivery that passed
\* the guard creates a call of its own, and each successful update writes
\* vapi_called = true with the id of its own call over the one written
\* before. Two deliveries that both read the contact before either wrote it
\* so make two calls.
C24_NoMutualExclusion ==
    [][\A d \in DOMAIN dl :
          /\ (dl[d].pc = "get_contact" /\ log'.line = "already_called"
              /\ dl'[d].pc = "done")
             => MarkedCalled
          /\ (dl[d].pc = "create_call" /\ dl'[d].pc = "update_contact")
             => /\ Len(calls') = Len(calls) + 1
                /\ \A k \in DOMAIN calls : calls[k].id # dl'[d].call_id
                /\ calls'[Len(calls')].id = dl'[d].call_id
          /\ (dl[d].pc = "update_contact" /\ log'.line = "initiated"
              /\ dl'[d].pc = "done")
             => /\ Get(CustomFieldsDict(crm'.customFields), "contact.vapi_call_id")
                      = dl[d].call_id
                /\ Get(CustomFieldsDict(crm'.customFields), "contact.vapi_called")
                      = "true"]_vars

\* two deliveries have both read the unmarked contact: both are about to ask
\* for a call
C24_Witness ==
    /\ Len(dl) = 2
    /\ dl[1].pc = "create_call"
    /\ dl[2].pc = "create_call"
    /\ calls = <<>>
    /\ ~MarkedCalled

\* C26: when the call was created and the contact update fails, the request
\* is still answered ok, the contact is left as it was (without vapi_called)
\* and no fallback check is scheduled; a fallback check is scheduled only in
\* the step in which the update that writes vapi_called succeeded. A delivery
\* that reads the contact afterwards passes the guard.
C26_UpdateFailureLeavesUnmarked ==
    [][/\ \A d \in DOMAIN dl :
             (dl[d].pc = "update_contact" /\ log'.line = "update_failed"
              /\ dl'[d].pc = "done")
             => /\ dl'[d].resp = "ok"
                /\ UNCHANGED <<crm, tasks, calls, sms>>
       /\ Len(tasks') # Len(tasks)
          => /\ Len(tasks') = Len(tasks) + 1
             /\ SubSeq(tasks', 1, Len(tasks)) = tasks
             /\ log'.line = "initiated"
             /\ Get(CustomFieldsDict(crm'.customFields), "contact.vapi_called") = "true"
             /\ Get(CustomFieldsDict(crm'.customFields), "contact.vapi_call_id")
                  = tasks'[Len(tasks')].call_id]_vars

\* after a first delivery whose call was created and whose update failed, a
\* second delivery has read the contact and passed the guard
C26_Witness ==
    /\ Len(dl) = 2
    /\ dl[1].pc = "done"
    /\ dl[2].pc = "create_call"
    /\ Len(calls) = 1
    /\ tasks = <<>>
    /\ ~MarkedCalled
    /\ log.line = "phone_found"

\* C27: when the create-call request fails, the request is answered ok with
\* no call, no contact update and no fallback check: the contact's custom
\* fields are what they were, and the delivery does nothing more.
C27_CallFailureChangesNothing ==
    [][\A d \in DOMAIN dl :
          /\ (dl[d].pc = "create_call" /\ dl'[d].pc # "create_call"
              /\ log'.line = "call_failed")
             => /\ dl'[d].pc = "done"
                /\ dl'[d].resp = "ok"
                /\ dl'[d].update = <<>>
                /\ UNCHANGED <<crm, calls, tasks, sms>>
          /\ dl[d].pc = "done" => dl'[d] = dl[d]]_vars

\* the create-call request of the one delivery failed: no call, no mark, no
\* fallback check
C27_Witness ==
    /\ Len(dl) = 1
    /\ dl[1].pc = "done"
    /\ dl[1].resp = "ok"
    /\ log.line = "call_failed"
    /\ calls = <<>>
    /\ tasks = <<>>
    /\ FieldValues("vapi_called") = {}
    /\ FieldValues("vapi_call_id") = {}

\* the contact carries sms_fallback_sent = true
MarkedSent == "true" \in FieldValues("sms_fallback_sent")

\* C25: a fallback check reads the call status once and is never run again:
\* a check that is over stays over, and no check goes back to its sleep. When
\* the status read is not failed, no-answer, busy or canceled, or when the
\* status or the contact cannot be fetched, the check ends there with nothing
\* sent and nothing written; an SMS is sent only by a check that has read a
\* failure status and then the contact, fallback checks are added only by a
\* delivery that initiated a call, and every step a check logs advances it.
C25_SingleCheck ==
    [][/\ \A t \in DOMAIN tasks :
             /\ tasks[t].pc \in {"done", "raised"} => tasks'[t] = tasks[t]
             /\ tasks[t].pc # "sleep" => tasks'[t].pc # "sleep"
             /\ tasks'[t].call_id = tasks[t].call_id
             /\ (tasks[t].pc = "sleep" /\ tasks'[t].pc # "sleep")
                => /\ tasks'[t].pc \in {"get_contact", "done", "raised"}
                   /\ tasks'[t].pc = "get_contact"
                         => log'.status \in {"failed", "no-answer", "busy", "canceled"}
                   /\ log'.line = "no_fallback_needed"
                         => log'.status \notin {"failed", "no-answer", "busy", "canceled"}
                   /\ log'.line \in {"no_fallback_needed", "status_error"}
                         => tasks'[t].pc = "done" /\ tasks'[t].update = <<>>
                   /\ UNCHANGED <<sms, crm>>
             /\ (tasks[t].pc = "get_contact" /\ tasks'[t].pc # "get_contact"
                 /\ log'.line = "contact_not_found")
                => /\ tasks'[t].pc = "done"
                   /\ tasks'[t].update = <<>>
                   /\ UNCHANGED <<sms, crm>>
       /\ sms' # sms
          => \E t \in DOMAIN tasks :
                /\ tasks[t].pc = "get_contact"
                /\ tasks[t].call_status \in {"failed", "no-answer", "busy", "canceled"}
                /\ tasks'[t].pc = "update_contact"
       /\ Len(tasks') # Len(tasks) => log'.line = "initiated"
       /\ UNCHANGED <<dl, tasks>> => log' = log]_vars

\* the one check of a call found it in progress: it is over, nothing was sent
C25_Witness ==
    /\ Len(tasks) = 1
    /\ tasks[1].pc = "done"
    /\ log = [line |-> "no_fallback_needed", status |-> "in-progress"]
    /\ sms = <<>>
    /\ ~MarkedSent

\* C28: a contact with sms_fallback_sent = true has had an SMS accepted by the
\* gateway and carries vapi_called = true; a send that fails writes none of
\* sms_fallback_sent, sms_fallback_date, sms_fallback_reason; and neither
\* flag, once true, is unset by a later step.
C28_FlagsFollowEffects ==
    [][/\ MarkedSent' => (Len(sms') >= 1 /\ MarkedCalled')
       /\ MarkedSent => MarkedSent'
       /\ MarkedCalled => MarkedCalled'
       /\ \A t \in DOMAIN tasks :
             (tasks[t].pc = "get_contact" /\ tasks'[t].pc # "get_contact"
              /\ log'.line = "sms_failed")
             => /\ tasks'[t].pc = "done"
                /\ tasks'[t].update = <<>>
                /\ UNCHANGED <<crm, sms>>]_vars

\* a send has failed: the check is over and the contact has no fallback field
C28_Witness ==
    /\ log.line = "sms_failed"
    /\ sms = <<>>
    /\ \A t \in DOMAIN tasks : tasks[t].pc = "done"
    /\ FieldValues("sms_fallback_sent") = {}
    /\ FieldValues("sms_fallback_date") = {}
    /\ FieldValues("sms_fallback_reason") = {}
    /\ MarkedCalled

----------------------------------------------------------------------------
(* Validation of the contact function's inputs: src/src/utils/validation.py *)
(* An email address and a ZIP code are sequences of one-character strings;  *)
(* <<>> stands for None and for the empty string                            *)

Letters == {"a", "b", "i", "o", "A"}

LowerChar(c) == IF c = "A" THEN "a" ELSE c

\* str.strip()
RECURSIVE Strip(_)
Strip(text) ==
    IF text = <<>> THEN <<>>
    ELSE IF Head(text) = " " THEN Strip(Tail(text))
    ELSE IF text[Len(text)] = " " THEN Strip(SubSeq(text, 1, Len(text) - 1))
    ELSE text

\* ^[a-zA-Z0-9._%+-]+@[a-zA-Z0-9.-]+\.[a-zA-Z]{2,}$
EmailPattern(email) ==
    \E at \in DOMAIN email, dot \in DOMAIN email :
        /\ at > 1
        /\ email[at] = "@"
        /\ dot > at + 1
        /\ email[dot] = "."
        /\ Len(email) - dot >= 2
        /\ \A k \in 1..(at - 1) :
              email[k] \in Letters \cup Digits \cup {".", "_", "%", "+", "-"}
        /\ \A k \in (at + 1)..(dot - 1) : email[k] \in Letters \cup Digits \cup {".", "-"}
        /\ \A k \in (dot + 1)..Len(email) : email[k] \in Letters

\* validate_email: value <<>> is the None it returns for a blank address
validate_email(email) ==
    LET stripped == Strip(email) IN
    IF email = <<>> THEN [ok |-> TRUE, value |-> <<>>]
    ELSE IF stripped = <<>> THEN [ok |-> TRUE, value |-> <<>>]
    ELSE IF ~EmailPattern(stripped) THEN [ok |-> FALSE, value |-> <<>>]
    ELSE [ok |-> TRUE, value |-> [k \in DOMAIN stripped |-> LowerChar(stripped[k])]]

\* ^\d{5}(-\d{4})?$ ; the $ also matches before a final newline
ZipPattern(zip_code) ==
    LET body == IF zip_code # <<>> /\ zip_code[Len(zip_code)] = "\n"
                    THEN SubSeq(zip_code, 1, Len(zip_code) - 1)
                ELSE zip_code
    IN \/ Len(body) = 5 /\ \A k \in 1..5 : IsDigit(body[k])
       \/ /\ Len(body) = 10
          /\ body[6] = "-"
          /\ \A k \in (1..5) \cup (7..10) : IsDigit(body[k])

validate_zip_code(zip_code) ==
    IF zip_code = <<>> THEN [ok |-> TRUE, value |-> <<>>]
    ELSE IF ~ZipPattern(zip_code) THEN [ok |-> FALSE, value |-> <<>>]
    ELSE [ok |-> TRUE, value |-> zip_code]

----------------------------------------------------------------------------
(* The CRM's error responses and the errors GHLClient._request raises       *)
(* A text is a sequence of tokens: a quoted string, a bare word or a        *)
(* punctuation mark; white space between tokens is not kept                 *)

Q(s) == [q |-> "\"", s |-> s]
W(s) == [q |-> "", s |-> s]

\* JSON values: a string or an object, which is a sequence of key/value pairs
Str(s) == [isObj |-> FALSE, str |-> s, obj |-> <<>>]
Obj(pairs) == [isObj |-> TRUE, str |-> "", obj |-> pairs]
Pair(k, v) == [key |-> k, value |-> v]

\* the body of an error response: a JSON object or some other text
JsonBody(pairs) == [json |-> TRUE, tree |-> pairs, raw |-> <<>>]
TextBody(tokens) == [json |-> FALSE, tree |-> <<>>, raw |-> tokens]

\* the text of a JSON object
RECURSIVE dumps(_)
RECURSIVE Members(_, _)
dumps(pairs) == <<W("{")>> \o Members(pairs, 1) \o <<W("}")>>
Members(pairs, i) ==
    IF i > Len(pairs) THEN <<>>
    ELSE (IF i > 1 THEN <<W(",")>> ELSE <<>>)
         \o <<Q(pairs[i].key), W(":")>>
         \o (IF pairs[i].value.isObj THEN dumps(pairs[i].value.obj)
             ELSE <<Q(pairs[i].value.str)>>)
         \o Members(pairs, i + 1)

\* e.response.text
ResponseText(body) == IF body.json THEN dumps(body.tree) ELSE body.raw

DuplicateMessage == "This location does not allow duplicated contacts."

ErrorBodies ==
    { JsonBody(<<Pair("message", Str(DuplicateMessage)),
                 Pair("meta", Obj(<<Pair("contactId", Str("C2"))>>))>>),
      JsonBody(<<Pair("message", Str(DuplicateMessage)), Pair("contactId", Str("C3"))>>),
      JsonBody(<<Pair("message", Str(DuplicateMessage)),
                 Pair("error", Obj(<<Pair("contactId", Str("C4"))>>))>>),
      TextBody(<<W("Duplicate"), W("contact"), W(","), W("contactId"), W("="), W("C5")>>),
      JsonBody(<<Pair("message", Str(DuplicateMessage))>>),
      JsonBody(<<Pair("message", Str("Invalid phone number"))>>),
      JsonBody(<<Pair("meta", Obj(<<Pair("contactId", Str("C2"))>>))>>) }

\* what can go wrong with a request to the CRM: an error status with a body,
\* or a failure of the transport
Failures ==
    [kind : {"status"}, status_code : {400, 422}, body : ErrorBodies]
    \cup {[kind |-> "transport", status_code |-> 0, body |-> TextBody(<<>>)]}

NoDetails == [given |-> FALSE, response |-> TextBody(<<>>)]

\* the GHLAPIError _request raises: str(e) is its message; details is
\* {"response": e.response.text} for an error status and {} for a failure of
\* the transport
GHLAPIError(failure) ==
    LET failed == <<W("GHL"), W("API"), W("request"), W("failed"), W(":")>>
    IN IF failure.kind = "status"
           THEN [type |-> "GHLAPIError",
                 message |-> failed \o <<W(ToString(failure.status_code))>>,
                 status_code |-> failure.status_code,
                 details |-> [given |-> TRUE, response |-> failure.body]]
       ELSE [type |-> "GHLAPIError",
             message |-> failed \o <<W("All"), W("connection"), W("attempts"), W("failed")>>,
             status_code |-> 500,
             details |-> NoDetails]

\* the error of response.json() when a 2xx response has no JSON body
JSONDecodeError ==
    [type |-> "JSONDecodeError", message |-> <<W("Expecting"), W("value")>>,
     status_code |-> 0, details |-> NoDetails]

\* the words "duplicate" and "contact" that the lower-cased token contains
Stems(s) ==
    CASE s = DuplicateMessage -> {"duplicate", "contact"}
      [] s = "Duplicate" -> {"duplicate"}
      [] s \in {"contact", "contactId"} -> {"contact"}
      [] OTHER -> {}

\* word in text.lower()
Has(text, word) == \E i \in DOMAIN text : word \in Stems(text[i].s)

\* the classification of the create error; every phrase is_duplicate looks
\* for contains "duplicate"
IsDuplicateError(e) ==
    LET error_str == e.message
        ghl_error_text == IF e.type = "GHLAPIError" /\ e.details.given
                              THEN ResponseText(e.details.response)
                          ELSE <<>>
        full_error_text == error_str \o ghl_error_text
        is_duplicate == Has(full_error_text, "duplicate")
        is_400_error == e.type = "GHLAPIError" /\ e.status_code = 400
    IN is_duplicate
       \/ (is_400_error /\ (Has(full_error_text, "contact")
                            \/ Has(full_error_text, "duplicate")))

HasKey(pairs, k) == \E i \in DOMAIN pairs : pairs[i].key = k

\* dict[k]: the value of the last pair with that key
ValueOf(pairs, k) ==
    pairs[CHOOSE i \in DOMAIN pairs :
              /\ pairs[i].key = k
              /\ \A j \in DOMAIN pairs : pairs[j].key = k => j <= i].value

\* dict.get(k), of a dict whose values under k are strings
GetStr(pairs, k) == IF HasKey(pairs, k) THEN ValueOf(pairs, k).str ELSE None

\* the extraction that reads the top-level contactId alone
StructuredContactId_TopLevelOnly(e) ==
    IF e.type # "GHLAPIError" \/ ~e.details.given THEN None
    ELSE IF ~e.details.response.json THEN None
    ELSE GetStr(e.details.response.tree, "contactId")

\* the contact id read from the parsed body of the error response:
\* meta.contactId, else contactId; None when the body is not JSON
StructuredContactId(e) ==
    IF e.type # "GHLAPIError" \/ ~e.details.given THEN None
    ELSE IF ~e.details.response.json THEN None
    ELSE LET error_data == e.details.response.tree
             meta == IF HasKey(error_data, "meta") /\ ValueOf(error_data, "meta").isObj
                         THEN GetStr(ValueOf(error_data, "meta").obj, "contactId")
                     ELSE None
         IN IF Truthy(meta) THEN meta ELSE GetStr(error_data, "contactId")

Punctuation == {"{", "}", ",", ":", "=", ""}

\* "contactId"\s*:\s*"([^"]+)" matches at token i
Pattern1At(text, i) ==
    /\ i + 2 <= Len(text)
    /\ text[i] = Q("contactId")
    /\ text[i + 1] = W(":")
    /\ text[i + 2].q = "\""
    /\ text[i + 2].s # ""

\* contactId["']?\s*[:=]\s*["']?([^"'\s,}]+) matches at token i
Pattern2At(text, i) ==
    /\ i + 2 <= Len(text)
    /\ text[i].s = "contactId"
    /\ text[i + 1] \in {W(":"), W("=")}
    /\ text[i + 2].s \notin Punctuation

\* contactId["']?\s*:\s*["']?([a-zA-Z0-9]+) matches at token i
Pattern3At(text, i) ==
    /\ i + 2 <= Len(text)
    /\ text[i].s = "contactId"
    /\ text[i + 1] = W(":")
    /\ text[i + 2].s \notin Punctuation

\* the identifiers of the samples are alphanumeric: each pattern captures
\* the whole token that follows the separator
Group1(text, matches) ==
    text[(CHOOSE i \in matches : \A j \in matches : i <= j) + 2].s

\* the loop over the patterns: group 1 of the leftmost match of the first
\* pattern that matches
RegexContactId(error_str) ==
    LET m1 == {i \in DOMAIN error_str : Pattern1At(error_str, i)}
        m2 == {i \in DOMAIN error_str : Pattern2At(error_str, i)}
        m3 == {i \in DOMAIN error_str : Pattern3At(error_str, i)}
    IN IF m1 # {} THEN Group1(error_str, m1)
       ELSE IF m2 # {} THEN Group1(error_str, m2)
       ELSE IF m3 # {} THEN Group1(error_str, m3)
       ELSE None

\* contact_id of a create error classified as a duplicate
DuplicateContactId(e) ==
    LET contact_id == StructuredContactId(e)
    IN IF Truthy(contact_id) THEN contact_id ELSE RegexContactId(e.message)

----------------------------------------------------------------------------
(* The contact function: src/src/functions/create_contact.py *)

EmailGood == <<"A", "@", "b", ".", "i", "o">>
EmailBad == <<"a", "@", "b">>
EmailBlank == <<" ">>
ZipGood == <<"9", "7", "2", "0", "1">>
ZipBad == <<"9", "7", "2">>

\* the requests of the voice assistant; custom_fields is a sequence of
\* <<key, value>> in the dict's insertion order
CreateRequests ==
    [name : {<<"Ann", "Lee">>},
     phone : {PhoneE164, PhonePretty, PhoneShort},
     email : {<<>>, EmailGood, EmailBad, EmailBlank},
     zip_code : {<<>>, ZipGood, ZipBad},
     address : {"12 Elm St"},
     custom_fields : {<<>>, <<<<"lead_source", "web">>>>},
     sms_consent : BOOLEAN]

\* the APIError a validation function raises
ValidationError(field) ==
    [type |-> "APIError", message |-> <<W("Invalid"), W(field)>>, status_code |-> 400,
     details |-> NoDetails]

NoError == [type |-> "none", message |-> <<>>, status_code |-> 0, details |-> NoDetails]

\* the validation that lets any ZIP code through
Validated_ZipUnchecked(request) ==
    LET phone == validate_phone_number(request.phone)
        email == IF request.email # <<>> THEN validate_email(request.email)
                 ELSE [ok |-> TRUE, value |-> <<>>]
    IN [error |-> IF ~phone.ok THEN ValidationError("phone")
                  ELSE IF ~email.ok THEN ValidationError("email")
                  ELSE NoError,
        phone |-> phone.value, email |-> email.value, zip_code |-> request.zip_code]

\* the three validations, in the order they are made; error is the first
\* APIError raised, NoError when there is none
Validated(request) ==
    LET phone == validate_phone_number(request.phone)
        email == IF request.email # <<>> THEN validate_email(request.email)
                 ELSE [ok |-> TRUE, value |-> <<>>]
        zip_code == IF request.zip_code # <<>> THEN validate_zip_code(request.zip_code)
                    ELSE [ok |-> TRUE, value |-> <<>>]
    IN [error |-> IF ~phone.ok THEN ValidationError("phone")
                  ELSE IF ~email.ok THEN ValidationError("email")
                  ELSE IF ~zip_code.ok THEN ValidationError("ZIP")
                  ELSE NoError,
        phone |-> phone.value, email |-> email.value, zip_code |-> zip_code.value]

\* dict[k] = v
DictSet(pairs, k, v) ==
    IF \E i \in DOMAIN pairs : pairs[i][1] = k
        THEN [i \in DOMAIN pairs |-> IF pairs[i][1] = k THEN <<k, v>> ELSE pairs[i]]
    ELSE Append(pairs, <<k, v>>)

\* contact_data; email <<>> stands for a payload without the email key
ContactData(request, v) ==
    LET name_parts == request.name
        custom_fields_dict == IF request.sms_consent
                                  THEN DictSet(request.custom_fields, "sms_consent", "true")
                              ELSE request.custom_fields
    IN [firstName |-> IF name_parts # <<>> THEN name_parts[1] ELSE "",
        lastName |-> IF Len(name_parts) > 1 THEN name_parts[2] ELSE "",
        phone |-> v.phone,
        address1 |-> request.address,
        postalCode |-> v.zip_code,
        customFields |-> build_custom_fields_array(custom_fields_dict),
        email |-> v.email]

\* a request made of the CRM, waiting for its answer
Sent(op, contact_id, data) ==
    [op |-> op, contact_id |-> contact_id, data |-> data, answer |-> "pending"]

\* the answer to the request made last
Answered(answer) == [wire EXCEPT ![Len(wire)].answer = answer]

\* existing_contact = None
NoContact == [id |-> None, phone |-> <<>>, email |-> <<>>]

NewCall(request, v) ==
    [pc |-> "search_phone", request |-> request, phone |-> v.phone, email |-> v.email,
     contact_data |-> ContactData(request, v), existing_contact |-> NoContact,
     contact_id |-> "", is_new |-> FALSE,
     success |-> FALSE, error |-> NoError, raised |-> NoError]

\* return CreateContactResponse(contact_id, success=True, is_new)
Returned(call, contact_id, is_new) ==
    [call EXCEPT !.pc = "returned", !.contact_id = contact_id, !.is_new = is_new,
                 !.success = TRUE]

\* the exception leaves create_contact
Raise(call, e) == [call EXCEPT !.pc = "raised", !.raised = e]

\* contacts of the CRM: the one of the request's phone and email, the same
\* without an id, and one of another person
SameContact ==
    [id |-> "C1", phone |-> <<"+", "1", " ", "5", "0", "3", "-", "5", "5", "5", "-", "0", "1", "0", "1">>,
     email |-> <<"A", "@", "b", ".", "i", "o">>]

SameContactNoId == [SameContact EXCEPT !.id = None]

OtherContact ==
    [id |-> "C2", phone |-> <<"+", "1", "5", "0", "3", "5", "5", "5", "0", "1", "9", "9">>,
     email |-> <<"z", "@", "b", ".", "i", "o">>]

\* the answers of POST /contacts/search: an error, or the contacts found
SearchAnswers ==
    { [answer |-> "error", contacts |-> <<>>],
      [answer |-> "ok", contacts |-> <<>>],
      [answer |-> "ok", contacts |-> <<SameContact>>],
      [answer |-> "ok", contacts |-> <<SameContactNoId>>],
      [answer |-> "ok", contacts |-> <<OtherContact>>],
      [answer |-> "ok", contacts |-> <<OtherContact, SameContact>>] }

\* str.replace("+", "").replace("-", "").replace(" ", "")
IsPhoneChar(c) == c \notin {"+", "-", " "}

\* the test of the filter for an exact match
ExactMatch(contact, phone, email) ==
    \/ phone # <<>> /\ SelectSeq(contact.phone, IsPhoneChar) = SelectSeq(phone, IsPhoneChar)
    \/ email # <<>> /\ [k \in DOMAIN contact.email |-> LowerChar(contact.email[k])]
                          = [k \in DOMAIN email |-> LowerChar(email[k])]

\* get_contact by phone or email: the first exact match, else the first
\* contact of the answer, None when there is none or the search failed
get_contact(result, phone, email) ==
    LET contacts == result.contacts
        exact == { k \in DOMAIN contacts : ExactMatch(contacts[k], phone, email) }
    IN IF result.answer = "error" \/ contacts = <<>>
           THEN [answer |-> result.answer, found |-> FALSE, contact |-> NoContact]
       ELSE IF exact # {}
           THEN [answer |-> result.answer, found |-> TRUE,
                 contact |-> contacts[CHOOSE k \in exact : \A m \in exact : k <= m]]
       ELSE [answer |-> result.answer, found |-> TRUE, contact |-> contacts[1]]

\* the ValueError of update_contact called without a contact id
ValueError ==
    [type |-> "ValueError", message |-> <<W("contact_id"), W("is"), W("required")>>,
     status_code |-> 0, details |-> NoDetails]

\* create_contact is called: the inputs are validated and the contact is
\* looked up by phone
CreateContactCalled ==
    /\ cc.pc = "idle"
    /\ \E request \in CreateRequests :
        LET v == Validated(request)
        IN IF v.error # NoError
               THEN /\ cc' = Raise(NewCall(request, v), v.error)
                    /\ wire' = wire
           ELSE /\ cc' = NewCall(request, v)
                /\ wire' = Append(wire, Sent("search", "", [phone |-> v.phone, email |-> <<>>]))
    /\ UNCHANGED <<webVars, availVars, configVars, bookVars, classifyVars>>

\* after the searches: the contact found is updated, else one is created
AfterSearch(existing_contact) ==
    IF existing_contact.found
        THEN IF Truthy(existing_contact.contact.id)
                 THEN /\ cc' = [cc EXCEPT !.pc = "update_existing",
                                          !.existing_contact = existing_contact.contact,
                                          !.contact_id = existing_contact.contact.id]
                      /\ wire' = Append(Answered(existing_contact.answer),
                                        Sent("update", existing_contact.contact.id,
                                             cc.contact_data))
             ELSE /\ cc' = Raise([cc EXCEPT !.existing_contact = existing_contact.contact],
                                 ValueError)
                  /\ wire' = Answered(existing_contact.answer)
    ELSE /\ cc' = [cc EXCEPT !.pc = "create"]
         /\ wire' = Append(Answered(existing_contact.answer),
                           Sent("create", "", cc.contact_data))

\* the answer of the search by phone
SearchPhoneReturns ==
    /\ cc.pc = "search_phone"
    /\ \E result \in SearchAnswers :
        LET existing_contact == get_contact(result, cc.phone, <<>>) IN
          IF ~existing_contact.found /\ cc.email # <<>>
              THEN /\ cc' = [cc EXCEPT !.pc = "search_email"]
                   /\ wire' = Append(Answered(existing_contact.answer),
                                     Sent("search", "", [phone |-> <<>>, email |-> cc.email]))
          ELSE AfterSearch(existing_contact)
    /\ UNCHANGED <<webVars, availVars, configVars, bookVars, classifyVars>>

\* the answer of the search by email
SearchEmailReturns ==
    /\ cc.pc = "search_email"
    /\ \E result \in SearchAnswers :
          AfterSearch(get_contact(result, <<>>, cc.email))
    /\ UNCHANGED <<webVars, availVars, configVars, bookVars, classifyVars>>

\* the answer of the update of the contact the search found; its error is
\* not caught
UpdateExistingReturns ==
    /\ cc.pc = "update_existing"
    /\ \/ /\ cc' = Returned(cc, cc.contact_id, FALSE)
          /\ wire' = Answered("ok")
       \/ \E failure \in Failures :
             /\ cc' = Raise(cc, GHLAPIError(failure))
             /\ wire' = Answered("error")
    /\ UNCHANGED <<webVars, availVars, configVars, bookVars, classifyVars>>

\* the bodies of a successful create: {"id": ...}, {"contact": {"id": ...}}, {}
CreateResults ==
    { [id |-> "N1", contact |-> None], [id |-> None, contact |-> "N1"],
      [id |-> None, contact |-> None] }

\* the update of the duplicate failed: the create error is raised
DuplicateUpdateFailed_Swallowed(call) == Returned(call, call.contact_id, FALSE)

DuplicateUpdateFailed(call) == Raise(call, call.error)

\* the except of the create: a duplicate whose contact id is recovered is
\* updated; any other error is raised again
CreateFailed(e) ==
    LET contact_id == DuplicateContactId(e)
    IN IF IsDuplicateError(e) /\ Truthy(contact_id)
           THEN /\ cc' = [cc EXCEPT !.pc = "update_duplicate", !.contact_id = contact_id,
                                    !.error = e]
                /\ wire' = Append(Answered("error"),
                                  Sent("update", contact_id, cc.contact_data))
       ELSE /\ cc' = Raise([cc EXCEPT !.error = e], e)
            /\ wire' = Answered("error")

\* the answer of the create
CreateReturns ==
    /\ cc.pc = "create"
    /\ \/ \E result \in CreateResults :
             /\ cc' = Returned(cc, Or(result.id, IF result.contact # None
                                                     THEN result.contact ELSE ""), TRUE)
             /\ wire' = Answered("ok")
       \/ \E failure \in Failures : CreateFailed(GHLAPIError(failure))
       \/ CreateFailed(JSONDecodeError)
    /\ UNCHANGED <<webVars, availVars, configVars, bookVars, classifyVars>>

\* the answer of the update of the duplicate
UpdateDuplicateReturns ==
    /\ cc.pc = "update_duplicate"
    /\ \/ /\ cc' = Returned(cc, cc.contact_id, FALSE)
          /\ wire' = Answered("ok")
       \/ /\ cc' = DuplicateUpdateFailed(cc)
          /\ wire' = Answered("error")
    /\ UNCHANGED <<webVars, availVars, configVars, bookVars, classifyVars>>

CreateInit ==
    /\ inbox = NoRequest
    /\ dl = <<>>
    /\ crm = Contact(CHOOSE shape \in ContactShapes : shape.phone = PhoneE164, <<>>)
    /\ calls = <<>>
    /\ tasks = <<>>
    /\ sms = <<>>
    /\ edits = 0
    /\ log = Line("")
    /\ AvailIdle
    /\ CreateIdle
    /\ NoSecret
    /\ BookIdle
    /\ ClassifyIdle

CreateNext ==
    \/ CreateContactCalled
    \/ SearchPhoneReturns
    \/ SearchEmailReturns
    \/ UpdateExistingReturns
    \/ CreateReturns
    \/ UpdateDuplicateReturns

CreateSpec == CreateInit /\ [][CreateNext]_vars

----------------------------------------------------------------------------
(* Properties of the contact function *)

\* C30: the contact create_contact updates in place of creating one has the
\* phone or the email of the request
C30_UpdatesOnlyExactMatch ==
    cc.pc = "update_existing" =>
        \/ SelectSeq(cc.existing_contact.phone, IsDigit) = SelectSeq(cc.phone, IsDigit)
        \/ cc.email # <<>> /\ [k \in DOMAIN cc.existing_contact.email |->
                                  LowerChar(cc.existing_contact.email[k])] = cc.email

\* the request create_contact made last of the CRM
LastSent == wire[Len(wire)]

\* the create was answered with an error status whose body is JSON, carries
\* the CRM's duplicate message and has meta.contactId = id
DuplicateWithMeta(e, id) ==
    /\ e.type = "GHLAPIError"
    /\ e.details.given
    /\ e.details.response.json
    /\ LET tree == e.details.response.tree
       IN /\ \E i \in DOMAIN tree :
                tree[i].key = "message" /\ tree[i].value.str = DuplicateMessage
          /\ \E i \in DOMAIN tree :
                /\ tree[i].key = "meta"
                /\ tree[i].value.isObj
                /\ \E j \in DOMAIN tree[i].value.obj :
                      /\ tree[i].value.obj[j].key = "contactId"
                      /\ tree[i].value.obj[j].value.str = id

\* C12: when the create is answered with a duplicate error whose JSON body
\* has meta.contactId = C, create_contact makes exactly one update request, of
\* contact C and with the payload it sent to create, and on the answer of that
\* update returns contact_id = C, is_new = false, success = true.
C12_DuplicateBecomesUpdate ==
    \A id \in {"C2"} :
        (cc.pc # "idle" /\ DuplicateWithMeta(cc.error, id))
        => /\ Cardinality({i \in DOMAIN wire : wire[i].op = "update"}) = 1
           /\ LastSent.op = "update"
           /\ LastSent.contact_id = id
           /\ wire[Len(wire) - 1].op = "create"
           /\ LastSent.data = wire[Len(wire) - 1].data
           /\ cc.pc \in {"update_duplicate", "returned", "raised"}
           /\ cc.pc = "update_duplicate" <=> LastSent.answer = "pending"
           /\ cc.pc = "returned" <=> LastSent.answer = "ok"
           /\ cc.pc = "returned"
              => cc.contact_id = id /\ cc.is_new = FALSE /\ cc.success = TRUE

\* a create that sent an sms_consent field was answered as a duplicate of
\* C2, the update of C2 succeeded and the response names C2 as not new
C12_Witness ==
    /\ cc.pc = "returned"
    /\ DuplicateWithMeta(cc.error, "C2")
    /\ cc.contact_id = "C2"
    /\ cc.is_new = FALSE
    /\ Len(wire) = 3
    /\ LastSent.op = "update"
    /\ LastSent.answer = "ok"
    /\ LastSent.data.customFields # <<>>

\* C13: when the create error is classified as a duplicate, the parsed body
\* gives no contact id, and the text of the CRM's error response has a
\* contactId token that one of the patterns matches, create_contact takes the
\* identifier of the first pattern that matches and updates that contact
\* instead; its response then has is_new = false.
C13_RegexRecovery ==
    (/\ cc.pc # "idle"
     /\ cc.error.type = "GHLAPIError"
     /\ cc.error.details.given
     /\ IsDuplicateError(cc.error)
     /\ ~Truthy(StructuredContactId(cc.error))
     /\ Truthy(RegexContactId(ResponseText(cc.error.details.response))))
    => /\ LastSent.op = "update"
       /\ LastSent.contact_id = RegexContactId(ResponseText(cc.error.details.response))
       /\ cc.pc = "returned" => cc.is_new = FALSE

\* the create was answered with an error that is not a duplicate or is a
\* duplicate without a contact id
Unrecovered(e) == ~IsDuplicateError(e) \/ ~Truthy(DuplicateContactId(e))

\* C14: create_contact returns a response, with success = true, only on the
\* successful answer of a create or of an update. When the create fails with
\* an error that is not a duplicate, or with a duplicate from which no contact
\* id is recovered, or when the update of the duplicate fails, the error of
\* the create is raised and there is no response.
C14_SuccessOnlyAfterSuccess ==
    cc.pc # "idle"
    => /\ cc.pc = "returned"
          => /\ cc.success
             /\ LastSent.op \in {"create", "update"}
             /\ LastSent.answer = "ok"
       /\ cc.pc # "returned" => ~cc.success
       /\ cc.error # NoError
          => /\ Unrecovered(cc.error)
                => /\ cc.pc = "raised"
                   /\ cc.raised = cc.error
                   /\ LastSent.op = "create"
                   /\ LastSent.answer = "error"
             /\ (~Unrecovered(cc.error) /\ LastSent.answer = "error")
                => /\ cc.pc = "raised"
                   /\ cc.raised = cc.error
                   /\ LastSent.op = "update"

\* the update of a duplicate failed and the error of the create was raised
C14_Witness ==
    /\ cc.pc = "raised"
    /\ DuplicateWithMeta(cc.error, "C2")
    /\ cc.raised = cc.error
    /\ LastSent.op = "update"
    /\ LastSent.answer = "error"
    /\ ~cc.success

\* C20: when the phone, the email (if given) or the ZIP code (if given) of the
\* request fails its validation, create_contact raises the APIError of the
\* validation, with status 400, and has made no request of the CRM.
C20_ValidationFirst ==
    (/\ cc.pc # "idle"
     /\ \/ ~validate_phone_number(cc.request.phone).ok
        \/ ~validate_email(cc.request.email).ok
        \/ ~validate_zip_code(cc.request.zip_code).ok)
    => /\ cc.pc = "raised"
       /\ cc.raised.type = "APIError"
       /\ cc.raised.status_code = 400
       /\ wire = <<>>

\* a request with a valid phone, a valid email and a ZIP code of three
\* digits was refused before anything was asked of the CRM
C20_Witness ==
    /\ cc.pc = "raised"
    /\ cc.request.phone = PhonePretty
    /\ cc.request.email = EmailGood
    /\ cc.request.zip_code = ZipBad
    /\ cc.raised = ValidationError("ZIP")
    /\ wire = <<>>

----------------------------------------------------------------------------
(* The booking function: src/src/functions/book_appointment.py and          *)
(* GHLClient.book_appointment. An appointment id is a sequence of its parts: *)
(* "manual-CAL-C1" is <<"manual", "CAL", "C1">> and "" is <<>>               *)

\* the requests of the voice assistant
BookRequests ==
    [calendar_id : {"cal-repair", "cal-install"}, contact_id : {"C1", "C2"},
     notes : {None, "gate code 12"}]

\* endpoints_to_try: the endpoint, where the calendar id goes and the names of
\* the time fields
endpoints_to_try(calendar_id, notes) ==
    LET text == IF Truthy(notes) THEN notes ELSE "" IN
    << [endpoint |-> <<"appointments">>, calendarId |-> calendar_id,
        fields |-> <<"startTime", "endTime">>, notes |-> text],
       [endpoint |-> <<"calendars", calendar_id, "appointments">>, calendarId |-> None,
        fields |-> <<"startTime", "endTime">>, notes |-> text],
       [endpoint |-> <<"appointments">>, calendarId |-> calendar_id,
        fields |-> <<"startDateTime", "endDateTime">>, notes |-> text] >>

\* the bodies of an accepted request: an appointment, an object without id,
\* and an object whose id is null
BookResults ==
    { [id |-> <<"apt-1">>, id_is_null |-> FALSE, status |-> "confirmed"],
      [id |-> <<>>, id_is_null |-> FALSE, status |-> ""],
      [id |-> <<>>, id_is_null |-> TRUE, status |-> ""] }

\* no body
NoResult == [id |-> <<>>, id_is_null |-> FALSE, status |-> ""]

\* the answers of the CRM to a create-appointment request
BookAnswers ==
    [kind : {"ok"}, status_code : {200}, result : BookResults]
    \cup [kind : {"status"}, status_code : {404, 400, 500},
          result : {NoResult}]
    \cup [kind : {"transport"}, status_code : {0}, result : {NoResult}]

\* BookAppointmentResponse(appointment_id, success, message); of the message
\* its wording is kept
BookAppointmentResponse(appointment_id, success, message) ==
    [appointment_id |-> appointment_id, success |-> success, message |-> message]

\* the error that moves the client to the next endpoint whatever its status
Retryable_AnyError(e) == TRUE

\* if e.status_code == 404: continue
Retryable(e) == e.status_code = 404

\* the dict returned after the last endpoint answered 404
ManualCreation(request) ==
    [id |-> <<"manual", request.calendar_id, request.contact_id>>, id_is_null |-> FALSE,
     status |-> "pending_manual_creation"]

\* "404" in error_msg or "Not Found" in error_msg
MentionsNotFound(error_msg) ==
    \E i \in DOMAIN error_msg : error_msg[i].s \in {"404", "Not Found"}

\* the except branch of book_appointment
BookFailed(e) ==
    IF MentionsNotFound(e.message)
        THEN BookAppointmentResponse(<<>>, FALSE, "create manually: not supported")
    ELSE BookAppointmentResponse(<<>>, FALSE, "Failed to book appointment")

\* the AttributeError of None.startswith
AttributeError ==
    [type |-> "AttributeError",
     message |-> <<Q("NoneType"), W("object"), W("has"), W("no"), W("attribute"),
                   Q("startswith")>>,
     status_code |-> 0, details |-> NoDetails]

\* book_appointment after the client returned result
BookSucceeded(result) ==
    LET appointment_id == result.id
        status == result.status
    IN IF status = "pending_manual_creation" THEN
           BookAppointmentResponse(appointment_id, FALSE, "create manually in dashboard")
       ELSE IF result.id_is_null THEN BookFailed(AttributeError)
       ELSE IF appointment_id # <<>> /\ Head(appointment_id) = "manual" THEN
           BookAppointmentResponse(appointment_id, FALSE, "create manually in dashboard")
       ELSE BookAppointmentResponse(appointment_id, TRUE, "Appointment booked successfully")

\* book_appointment is called: the first endpoint is tried
BookAppointmentCalled ==
    /\ ba.pc = "idle"
    /\ \E request \in BookRequests :
          ba' = [pc |-> "request", request |-> request, tried |-> <<>>,
                 response |-> BookAppointmentResponse(<<>>, FALSE, "")]
    /\ UNCHANGED <<webVars, availVars, createVars, configVars, classifyVars>>

\* the answer of the endpoint tried: the result is returned, the next endpoint
\* is tried after a 404, any other error is raised to book_appointment; after
\* the last endpoint the manual creation is returned
EndpointReturns ==
    /\ ba.pc = "request"
    /\ \E answer \in BookAnswers :
        LET endpoints == endpoints_to_try(ba.request.calendar_id, ba.request.notes)
            k == Len(ba.tried) + 1
            tried == Append(ba.tried, [endpoint |-> endpoints[k].endpoint,
                                       fields |-> endpoints[k].fields,
                                       notes |-> endpoints[k].notes,
                                       status_code |-> answer.status_code])
            e == GHLAPIError([kind |-> answer.kind, status_code |-> answer.status_code,
                              body |-> TextBody(<<>>)])
        IN IF answer.kind = "ok"
               THEN ba' = [ba EXCEPT !.pc = "returned", !.tried = tried,
                                     !.response = BookSucceeded(answer.result)]
           ELSE IF Retryable(e)
               THEN IF k < Len(endpoints)
                        THEN ba' = [ba EXCEPT !.tried = tried]
                    ELSE ba' = [ba EXCEPT !.pc = "returned", !.tried = tried,
                                          !.response = BookSucceeded(ManualCreation(ba.request))]
           ELSE ba' = [ba EXCEPT !.pc = "returned", !.tried = tried,
                                 !.response = BookFailed(e)]
    /\ UNCHANGED <<webVars, availVars, createVars, configVars, classifyVars>>

----------------------------------------------------------------------------
(* One call of book_appointment *)

BookInit ==
    /\ inbox = NoRequest
    /\ dl = <<>>
    /\ crm = Contact(CHOOSE shape \in ContactShapes : shape.phone = PhoneE164, <<>>)
    /\ calls = <<>>
    /\ tasks = <<>>
    /\ sms = <<>>
    /\ edits = 0
    /\ log = Line("")
    /\ AvailIdle
    /\ CreateIdle
    /\ NoSecret
    /\ BookIdle
    /\ ClassifyIdle

BookNext ==
    \/ BookAppointmentCalled
    \/ EndpointReturns

BookSpec == BookInit /\ [][BookNext]_vars

----------------------------------------------------------------------------
(* Properties of the booking function *)

\* the create-appointment endpoints in the order they are to be tried
EndpointFormats(calendar_id) ==
    << [endpoint |-> <<"appointments">>, fields |-> <<"startTime", "endTime">>],
       [endpoint |-> <<"calendars", calendar_id, "appointments">>,
        fields |-> <<"startTime", "endTime">>],
       [endpoint |-> <<"appointments">>, fields |-> <<"startDateTime", "endDateTime">>] >>

\* C21: book_appointment ends with a response, never an exception; the three
\* endpoint formats are tried in order, the next one only after a 404 and none
\* after any other answer; success is true only if an endpoint accepted the
\* request; three 404s give success false, the id manual-<calendarId>-<contactId>
\* and the manual-creation message; any other error gives success false and
\* an empty id
C21_BookingNeverRaises ==
    ba.pc # "idle" =>
        LET n == Len(ba.tried)
            formats == EndpointFormats(ba.request.calendar_id)
        IN /\ ba.pc \in {"request", "returned"}
           /\ n <= 3
           /\ \A i \in 1..n : /\ ba.tried[i].endpoint = formats[i].endpoint
                              /\ ba.tried[i].fields = formats[i].fields
           /\ \A i \in 1..n : i < n \/ ba.pc = "request" => ba.tried[i].status_code = 404
           /\ ba.pc = "returned" =>
                /\ n >= 1
                /\ ba.response.success => ba.tried[n].status_code = 200
                /\ (n = 3 /\ ba.tried[n].status_code = 404) =>
                      /\ ~ba.response.success
                      /\ ba.response.appointment_id
                           = <<"manual", ba.request.calendar_id, ba.request.contact_id>>
                      /\ ba.response.message = "create manually in dashboard"
                /\ ba.tried[n].status_code \notin {200, 404} =>
                      /\ ~ba.response.success
                      /\ ba.response.appointment_id = <<>>
                /\ ba.tried[n].status_code = 404 => n = 3

\* all three endpoints answered 404 and the manual creation was returned
C21_Witness ==
    /\ ba.pc = "returned"
    /\ Len(ba.tried) = 3
    /\ \A i \in 1..3 : ba.tried[i].status_code = 404
    /\ ~ba.response.success
    /\ ba.response.appointment_id # <<>>

----------------------------------------------------------------------------
(* The call classifier: src/src/functions/classify_call_type.py. A text is  *)
(* a sequence of one-character strings; a confidence is a number of          *)
(* hundredths                                                                 *)

UpperCase ==
    <<"A", "B", "C", "D", "E", "F", "G", "H", "I", "J", "K", "L", "M",
      "N", "O", "P", "Q", "R", "S", "T", "U", "V", "W", "X", "Y", "Z">>

LowerCase ==
    <<"a", "b", "c", "d", "e", "f", "g", "h", "i", "j", "k", "l", "m",
      "n", "o", "p", "q", "r", "s", "t", "u", "v", "w", "x", "y", "z">>

\* str.lower()
str_lower(text) ==
    [k \in DOMAIN text |->
        IF \E i \in DOMAIN UpperCase : UpperCase[i] = text[k]
            THEN LowerCase[CHOOSE i \in DOMAIN UpperCase : UpperCase[i] = text[k]]
        ELSE text[k]]

\* kw in text
Contains(text, kw) ==
    \E i \in 1..(Len(text) - Len(kw) + 1) : SubSeq(text, i, i + Len(kw) - 1) = kw

service_repair_keywords ==
    << <<"b", "r", "o", "k", "e", "n">>,
       <<"n", "o", "t", " ", "w", "o", "r", "k", "i", "n", "g">>,
       <<"r", "e", "p", "a", "i", "r">>,
       <<"f", "i", "x">>,
       <<"b", "r", "o", "k", "e", "n", " ", "d", "o", "w", "n">>,
       <<"n", "o", "t", " ", "c", "o", "o", "l", "i", "n", "g">>,
       <<"n", "o", "t", " ", "h", "e", "a", "t", "i", "n", "g">>,
       <<"l", "e", "a", "k">>,
       <<"e", "m", "e", "r", "g", "e", "n", "c", "y">>,
       <<"u", "r", "g", "e", "n", "t">>,
       <<"s", "t", "o", "p", "p", "e", "d", " ", "w", "o", "r", "k", "i", "n", "g">>,
       <<"m", "a", "l", "f", "u", "n", "c", "t", "i", "o", "n">>,
       <<"i", "s", "s", "u", "e">>,
       <<"p", "r", "o", "b", "l", "e", "m">> >>

install_estimate_keywords ==
    << <<"i", "n", "s", "t", "a", "l", "l">>,
       <<"i", "n", "s", "t", "a", "l", "l", "a", "t", "i", "o", "n">>,
       <<"n", "e", "w", " ", "s", "y", "s", "t", "e", "m">>,
       <<"r", "e", "p", "l", "a", "c", "e">>,
       <<"u", "p", "g", "r", "a", "d", "e">>,
       <<"e", "s", "t", "i", "m", "a", "t", "e">>,
       <<"q", "u", "o", "t", "e">>,
       <<"p", "r", "i", "c", "i", "n", "g">>,
       <<"c", "o", "s", "t">>,
       <<"p", "r", "i", "c", "e">>,
       <<"h", "o", "w", " ", "m", "u", "c", "h">>,
       <<"n", "e", "w", " ", "u", "n", "i", "t">>,
       <<"n", "e", "w", " ", "e", "q", "u", "i", "p", "m", "e", "n", "t">> >>

maintenance_keywords ==
    << <<"m", "a", "i", "n", "t", "e", "n", "a", "n", "c", "e">>,
       <<"t", "u", "n", "e", "-", "u", "p">>,
       <<"s", "e", "r", "v", "i", "c", "e">>,
       <<"c", "h", "e", "c", "k", "-", "u", "p">>,
       <<"i", "n", "s", "p", "e", "c", "t", "i", "o", "n">>,
       <<"p", "r", "e", "v", "e", "n", "t", "i", "v", "e">>,
       <<"a", "n", "n", "u", "a", "l">>,
       <<"r", "e", "g", "u", "l", "a", "r", " ", "s", "e", "r", "v", "i", "c", "e">>,
       <<"m", "a", "i", "n", "t", "e", "n", "a", "n", "c", "e", " ", "p", "l", "a", "n">> >>

appointment_change_keywords ==
    << <<"r", "e", "s", "c", "h", "e", "d", "u", "l", "e">>,
       <<"c", "a", "n", "c", "e", "l">>,
       <<"c", "h", "a", "n", "g", "e">>,
       <<"m", "o", "v", "e">>,
       <<"p", "o", "s", "t", "p", "o", "n", "e">>,
       <<"d", "i", "f", "f", "e", "r", "e", "n", "t", " ", "t", "i", "m", "e">>,
       <<"d", "i", "f", "f", "e", "r", "e", "n", "t", " ", "d", "a", "t", "e">>,
       <<"a", "p", "p", "o", "i", "n", "t", "m", "e", "n", "t">> >>

\* what a caller says, in pieces
Phrases ==
    << <<"M", "y", " ", "A", "C", " ", "i", "s", " ", "b", "r", "o", "k", "e", "n">>,
       <<"n", "o", "t">>,
       <<"n", "e", "e", "d", " ", "a", " ", "q", "u", "o", "t", "e", " ", "f", "o", "r", " ", "i", "n", "s", "t", "a", "l", "l", "a", "t", "i", "o", "n">>,
       <<"m", "a", "i", "n", "t", "e", "n", "a", "n", "c", "e", " ", "t", "u", "n", "e", "-", "u", "p">>,
       <<"R", "e", "s", "c", "h", "e", "d", "u", "l", "e", " ", "m", "y", " ", "A", "P", "P", "O", "I", "N", "T", "M", "E", "N", "T">>,
       <<"h", "e", "l", "l", "o", " ", "t", "h", "e", "r", "e">>,
       <<"b", "r", "o", "k", "e", "n", " ", "d", "o", "w", "n", ",", " ", "u", "r", "g", "e", "n", "t", " ", "r", "e", "p", "a", "i", "r", " ", "o", "f", " ", "a", " ", "l", "e", "a", "k", " ", "p", "r", "o", "b", "l", "e", "m">>,
       <<"f", "i", "x", " ", "t", "h", "e", " ", "p", "r", "i", "c", "e">>,
       <<"S", "e", "r", "v", "i", "c", "e">> >>

\* the summaries of a conversation; <<>> stands for None and for ""
Summaries ==
    { <<>>,
      <<"w", "o", "r", "k", "i", "n", "g", " ", "n", "o", "w">>,
      <<"e", "s", "t", "i", "m", "a", "t", "e">> }

\* the transcripts: one phrase, or two with a blank between them
Transcripts ==
    { Phrases[i] : i \in DOMAIN Phrases }
    \cup { Phrases[i] \o <<" ">> \o Phrases[j] : i, j \in DOMAIN Phrases }

ClassifyRequests == [transcript : Transcripts, conversation_summary : Summaries]

\* the members of CallType the classifier scores, in the order of the dict
ScoredTypes == <<"service_repair", "install_estimate", "maintenance", "appointment_change">>

\* sum(1 for kw in keywords if kw in combined_text)
Score(keywords, combined_text) ==
    Cardinality({ k \in DOMAIN keywords : Contains(combined_text, keywords[k]) })

\* the maximum that goes to the last of the types with the highest score
FirstMax_LastWins(scores) ==
    LET best == { i \in DOMAIN scores : \A j \in DOMAIN scores : scores[j] <= scores[i] }
    IN CHOOSE i \in best : \A j \in best : j <= i

\* max(scores, key=scores.get): the first of the keys with the highest score
FirstMax(scores) ==
    LET best == { i \in DOMAIN scores : \A j \in DOMAIN scores : scores[j] <= scores[i] }
    IN CHOOSE i \in best : \A j \in best : i <= j

\* min(0.95, 0.5 + (max_score * 0.1)), in hundredths
Confidence(max_score) ==
    IF 50 + max_score * 10 < 95 THEN 50 + max_score * 10 ELSE 95

\* classify_call_type
classify_call_type(request) ==
    LET transcript_lower == str_lower(request.transcript)
        summary_lower == str_lower(request.conversation_summary)
        combined_text == transcript_lower \o <<" ">> \o summary_lower
        scores == << Score(service_repair_keywords, combined_text),
                     Score(install_estimate_keywords, combined_text),
                     Score(maintenance_keywords, combined_text),
                     Score(appointment_change_keywords, combined_text) >>
        max_score == scores[FirstMax(scores)]
    IN IF max_score = 0
           THEN [call_type |-> "other", confidence |-> 50, max_score |-> max_score]
       ELSE [call_type |-> ScoredTypes[FirstMax(scores)],
             confidence |-> Confidence(max_score), max_score |-> max_score]

\* the classifier answers the request
ClassifyReturns ==
    /\ ct.pc = "called"
    /\ ct' = [ct EXCEPT !.pc = "returned", !.response = classify_call_type(ct.request)]
    /\ UNCHANGED <<webVars, availVars, createVars, configVars, bookVars>>

----------------------------------------------------------------------------
(* One call of classify_call_type *)

ClassifyInit ==
    /\ inbox = NoRequest
    /\ dl = <<>>
    /\ crm = Contact(CHOOSE shape \in ContactShapes : shape.phone = PhoneE164, <<>>)
    /\ calls = <<>>
    /\ tasks = <<>>
    /\ sms = <<>>
    /\ edits = 0
    /\ log = Line("")
    /\ AvailIdle
    /\ CreateIdle
    /\ NoSecret
    /\ BookIdle
    /\ \E request \in ClassifyRequests :
          ct = [pc |-> "called", request |-> request,
                response |-> [call_type |-> "", confidence |-> 0, max_score |-> 0]]

ClassifyNext == ClassifyReturns

ClassifySpec == ClassifyInit /\ [][ClassifyNext]_vars

----------------------------------------------------------------------------
(* Properties of the call classifier *)

\* the keywords of a call type
KeywordsOf(call_type) ==
    CASE call_type = "service_repair" -> service_repair_keywords
      [] call_type = "install_estimate" -> install_estimate_keywords
      [] call_type = "maintenance" -> maintenance_keywords
      [] call_type = "appointment_change" -> appointment_change_keywords

\* the number of keywords of the call type that occur in the lowered
\* transcript and summary of the request
Matches(call_type, request) ==
    LET text == str_lower(request.transcript \o <<" ">> \o request.conversation_summary)
        keywords == KeywordsOf(call_type)
    IN Cardinality({ keywords[k] : k \in { m \in DOMAIN keywords :
                                            Contains(text, keywords[m]) } })

\* C22: the type returned has the highest number of matching keywords, the
\* earliest such type in the order service_repair, install_estimate,
\* maintenance, appointment_change; its confidence is min(0.95, 0.5 + 0.1 *
\* count), above 0.5; with no match the type is other and the confidence 0.5
C22_HighestCountWins ==
    ct.pc = "returned" =>
        LET r == ct.response
            count(i) == Matches(ScoredTypes[i], ct.request)
        IN IF \A i \in DOMAIN ScoredTypes : count(i) = 0
               THEN r.call_type = "other" /\ r.confidence = 50
           ELSE \E i \in DOMAIN ScoredTypes :
                   /\ r.call_type = ScoredTypes[i]
                   /\ \A j \in DOMAIN ScoredTypes : count(j) <= count(i)
                   /\ \A j \in 1..(i - 1) : count(j) < count(i)
                   /\ r.confidence = IF count(i) >= 5 THEN 95 ELSE 50 + 10 * count(i)
                   /\ r.confidence > 50

\* two types had the same highest count and the earlier one was returned
C22_Witness ==
    /\ ct.pc = "returned"
    /\ ct.response.call_type = "service_repair"
    /\ Matches("service_repair", ct.request) = Matches("install_estimate", ct.request)
    /\ ct.response.confidence > 50
====
